---- MODULE Spec2Model ----
(***************************************************************************)
(* Cowstick-UMS firmware: USB Mass-Storage Bulk-Only transport             *)
(* (usb_msc.c), the part of the USB device core it relies on (usb.c) and  *)
(* the SCSI dispatcher (scsi.c), as a state machine.                       *)
(*                                                                         *)
(* Two execution contexts exist on the target: the foreground loop, which  *)
(* calls _periodic(), and the USB interrupt, which runs the endpoint       *)
(* callbacks.  Every action below is one call of _periodic() or one        *)
(* interrupt (hardware event plus the whole handler).                      *)
(*                                                                         *)
(* The host is the environment.  It follows the Bulk-Only sequencing of    *)
(* the host test-suite (tests/usb_msc): one command outstanding at a time, *)
(* data-out packets of the maximum packet size up to the declared length,  *)
(* CLEAR_FEATURE(ENDPOINT_HALT) after a STALL handshake, Reset Recovery    *)
(* (class reset, clear IN, clear OUT) or a bus reset at any moment.  The   *)
(* command packets it sends are well formed or malformed; the n-th one     *)
(* carries the tag n.                                                      *)
(*                                                                         *)
(* The variables txn, hook and host are not firmware state: txn and hook   *)
(* record what the transfer in progress has done, for the properties.      *)
(***************************************************************************)
EXTENDS Integers, Sequences, FiniteSets, TLC

(* ---------------------------------------------------------------------- *)
(* Bounds of the model                                                    *)
(* ---------------------------------------------------------------------- *)
\* READ(10)/WRITE(10) transfer lengths range over 1..MaxBlocks
MaxBlocks == 2
\* logical block addresses range over 0..MaxLba
MaxLba == 0
\* the host sends at most MaxCbw command packets in a run; the n-th carries
\* the tag n
MaxCbw == 2
\* the host signals at most MaxBusReset bus resets and issues at most
\* MaxClassReset Bulk-Only resets in a run
MaxBusReset == 2
MaxClassReset == 1
\* the host of SpecSense sends at most MaxScsiCbw commands in a run
MaxScsiCbw == 3
\* the host of SpecMem writes and reads back at most MaxMemCmd ranges in a
\* run, that start at the blocks MemLbas and hold MemCounts blocks, or
\* MemLongCount blocks
MaxMemCmd == 2
MemLbas == {0, 7, 32767}
MemCounts == {1, 2, 10}
MemLongCount == 32769
\* the application of SpecMemApi makes at most MaxMemCalls calls in a run
MaxMemCalls == 4
\* the medium the main loop inserts has DefaultCapacity blocks of 512 bytes
DefaultCapacity == 131072

(* ---------------------------------------------------------------------- *)
(* Program constants                                                      *)
(* ---------------------------------------------------------------------- *)
MSC_ST_CBW      == "CBW"
MSC_ST_DATA_IN  == "DATA_IN"
MSC_ST_DATA_OUT == "DATA_OUT"
MSC_ST_CSW      == "CSW"
MSC_ST_ERROR    == "ERROR"

USB_ST_POWERED    == 0
USB_ST_DEFAULT    == 1
USB_ST_ADDRESS    == 2
USB_ST_CONFIGURED == 3

USB_EP_DISABLED == 0
USB_EP_STALL    == 1
USB_EP_NAK      == 2
USB_EP_VALID    == 3

USB_EP_COUNT == 7

\* endpoint numbers of the MSC interface (descriptor: IN 0x81, OUT 0x02)
EP_IN  == 1
EP_OUT == 2
\* bulk max packet size
MaxPacket == 64
\* sizeof(scsi_data)
ScsiBufSize == 512
\* sizeof(msc_cbw), the rsv_pad byte included
SizeofCbw == 32
\* length of a CBW on the wire and of a CSW
CbwLen == 31
CswLen == 13
\* 0x43425355 and 0x53425355
CBW_SIGNATURE == 1128420181
CSW_SIGNATURE == 1396855637

SCSI_CMD6_TEST_READY       == 0
SCSI_CMD6_REQUEST_SENSE    == 3
SCSI_CMD6_INQUIRY          == 18
SCSI_CMD6_MODE_SENSE       == 26
SCSI_CMD6_START_STOP_UNIT  == 27
SCSI_CMD6_PA_MEDIA_REMOVAL == 30
SCSI_CMD10_READ_FORMAT_CAPACITIES == 35
SCSI_CMD10_READ_CAPACITY   == 37
SCSI_CMD10_READ            == 40
SCSI_CMD10_WRITE           == 42
\* an opcode of group 5 (12-byte CDB), not implemented
OpUnknown == 160

(* ---------------------------------------------------------------------- *)
(* Helpers                                                                *)
(* ---------------------------------------------------------------------- *)
Min(a, b) == IF a < b THEN a ELSE b

\* A u32 is represented by the integer that has the same bits in 32-bit
\* two's complement: a difference that wraps below zero is a negative
\* integer here and stands for 2^32 minus its magnitude.  Sums and
\* differences are then the integer ones; the comparisons are the unsigned
\* ones.
ULt(a, b) == IF (a < 0) = (b < 0) THEN a < b ELSE b < 0
UMin(a, b) == IF ULt(a, b) THEN a ELSE b

\* bitwise exclusive or of two 2-bit endpoint status fields
Xor2(a, b) == (((a % 2) + (b % 2)) % 2) + 2 * ((((a \div 2) % 2) + ((b \div 2) % 2)) % 2)

\* number of 32-bit words touched by "for (i = 0; i < len; i += 4)"
WordsOf(len) == (len + 3) \div 4

(* ---------------------------------------------------------------------- *)
(* State                                                                  *)
(* ---------------------------------------------------------------------- *)
VARIABLES
  \* usb_msc.c
  fsm_state, data_more, rx_flag, tx_flag, err_flag, rst_flag,
  cbw, csw, data_len, data_offset,
  \* scsi.c
  scsi_len, scsi_ctx, request_sense, scsi_lun,
  \* usb.c: device state, endpoint registers CHEPxR (STATRX/STATTX fields),
  \* endpoint-definition table
  state, chep, ep_defs,
  \* usb.c: the address stored by SET_ADDRESS; the address field of the
  \* USB_DADDR register, the address the peripheral answers on
  dev_addr, daddr,
  \* observation: number of calls of the application reset hook
  app_resets,
  \* the READ BUFFER or WRITE BUFFER command in progress on the echo buffer
  \* and, as an observation, the part of scsi_echo its copies have touched
  echo_io,
  \* the hooks of the LUN: rd is 1 while a read hook is installed; wr_preload,
  \* wr and wr_complete are the values the write hooks return
  lun_hooks,
  \* the endpoint register update the main loop has begun: the toggle bits
  \* it computed from the value it read, not yet written
  fg_rmw,
  \* as an observation, the bytes the last call of usb_ep_rx has written:
  \* into which object, from which offset, up to which offset
  rx_copy,
  \* as an observation, whether ep_defs has been indexed outside its
  \* USB_EP_COUNT entries
  ep_oob,
  \* packet memory: the packet queued in the bulk IN buffer
  in_pkt,
  \* packet memory: length and first byte of the endpoint 0 IN buffer
  ep0_pkt,
  \* observation: calls of the LUN hooks made by the last dispatcher call
  hook,
  \* observation: the bytes the last dispatcher call has written at the
  \* start of scsi_data (REQUEST SENSE, READ CAPACITY, READ FORMAT
  \* CAPACITIES; empty for the other commands)
  resp,
  \* mem.c: cache of memory node 0 (cache_addr, cache_buffer); the content
  \* of the flash chip behind it
  nodes, flash,
  \* the command the host of SpecMem runs on the logical unit, and what the
  \* last block read has returned
  lun_io,
  \* observation: the transaction opened by the last accepted CBW
  txn,
  \* time.c: the counters of the tick handler
  ticks, time_ms, time_s,
  \* observation: the number of calls of the tick handler since time_init,
  \* the reference taken with time_now and the number of calls since
  tm_obs,
  \* a caller of time_now(&tv) or time_diff_ms(): its position and locals
  tm_rd,
  \* the host
  host

vars == << fsm_state, data_more, rx_flag, tx_flag, err_flag, rst_flag,
           cbw, csw, data_len, data_offset,
           scsi_len, scsi_ctx, request_sense, scsi_lun,
           state, chep, ep_defs, in_pkt, ep0_pkt, hook, resp,
           nodes, flash, lun_io, dev_addr, daddr, app_resets, echo_io,
           lun_hooks, fg_rmw, rx_copy, ep_oob, txn, ticks, time_ms, time_s,
           tm_obs, tm_rd, host >>

\* the state of time.c and of its callers
timevars == << ticks, time_ms, time_s, tm_obs, tm_rd >>

\* the state of the USB device, of the memory and of the host
usbvars == << fsm_state, data_more, rx_flag, tx_flag, err_flag, rst_flag,
              cbw, csw, data_len, data_offset,
              scsi_len, scsi_ctx, request_sense, scsi_lun,
              state, chep, ep_defs, in_pkt, ep0_pkt, hook, resp,
              nodes, flash, lun_io, dev_addr, daddr, app_resets, echo_io,
              lun_hooks, fg_rmw, rx_copy, ep_oob, txn, host >>

\* The device as one record, so that handlers compose as functions.
Dev == [ fsm_state |-> fsm_state, data_more |-> data_more,
         rx_flag |-> rx_flag, tx_flag |-> tx_flag, err_flag |-> err_flag,
         rst_flag |-> rst_flag, cbw |-> cbw, csw |-> csw,
         data_len |-> data_len, data_offset |-> data_offset,
         scsi_len |-> scsi_len, scsi_ctx |-> scsi_ctx,
         request_sense |-> request_sense, scsi_lun |-> scsi_lun,
         state |-> state, chep |-> chep, ep_defs |-> ep_defs,
         in_pkt |-> in_pkt, ep0_pkt |-> ep0_pkt, hook |-> hook,
         resp |-> resp, txn |-> txn,
         nodes |-> nodes, flash |-> flash, lun_io |-> lun_io,
         dev_addr |-> dev_addr, daddr |-> daddr, app_resets |-> app_resets,
         echo_io |-> echo_io, lun_hooks |-> lun_hooks,
         fg_rmw |-> fg_rmw, rx_copy |-> rx_copy, ep_oob |-> ep_oob,
         \* what a read outside ep_defs finds: whether the word read as the
         \* release pointer is non-null, and what a call through it returns
         stray |-> [release |-> FALSE, res |-> 0],
         \* timing of the bus against the handler that runs: whether the
         \* IN token of the host is served between two of its register
         \* writes
         hw_in |-> FALSE, ep0_got |-> host.got ]

Commit(d) ==
  \E v \in {d} :
    /\ fsm_state' = v.fsm_state        /\ data_more' = v.data_more
    /\ rx_flag' = v.rx_flag            /\ tx_flag' = v.tx_flag
    /\ err_flag' = v.err_flag          /\ rst_flag' = v.rst_flag
    /\ cbw' = v.cbw                    /\ csw' = v.csw
    /\ data_len' = v.data_len          /\ data_offset' = v.data_offset
    /\ scsi_len' = v.scsi_len          /\ scsi_ctx' = v.scsi_ctx
    /\ request_sense' = v.request_sense /\ scsi_lun' = v.scsi_lun
    /\ state' = v.state                /\ chep' = v.chep
    /\ ep_defs' = v.ep_defs            /\ in_pkt' = v.in_pkt
    /\ hook' = v.hook                  /\ txn' = v.txn
    /\ ep0_pkt' = v.ep0_pkt            /\ resp' = v.resp
    /\ nodes' = v.nodes                /\ flash' = v.flash
    /\ lun_io' = v.lun_io
    /\ dev_addr' = v.dev_addr          /\ daddr' = v.daddr
    /\ app_resets' = v.app_resets      /\ echo_io' = v.echo_io
    /\ lun_hooks' = v.lun_hooks        /\ fg_rmw' = v.fg_rmw
    /\ rx_copy' = v.rx_copy            /\ ep_oob' = v.ep_oob
    /\ UNCHANGED timevars

(* ---------------------------------------------------------------------- *)
(* scsi.c                                                                 *)
(* ---------------------------------------------------------------------- *)
\* memset + code = 0x70, length = 10: the triple the commands maintain
SenseInit == [key |-> 0, asc |-> 0, ascq |-> 0]

\* scsi_lun_count(): number of logical units
scsi_lun_count == 1

scsi_reset(d) == [d EXCEPT !.scsi_ctx = 0, !.request_sense = SenseInit]

scsi_complete(d) == [d EXCEPT !.scsi_ctx = 0]

\* err_illegal: key and asc are written, ascq is left as it is
err_illegal(d) ==
  [res |-> -1,
   d |-> [d EXCEPT !.request_sense.key = 5, !.request_sense.asc = 32]]

err_invalid_field(d) ==
  [res |-> -1,
   d |-> [d EXCEPT !.request_sense = [key |-> 5, asc |-> 36, ascq |-> 0]]]

cmd6_test_ready(d) ==
  IF d.scsi_lun.state = 0
  THEN [res |-> -3,
        d |-> [d EXCEPT !.request_sense = [key |-> 2, asc |-> 58, ascq |-> 0]]]
  ELSE [res |-> 0, d |-> d]

\* the 18 bytes of the packed structure scsi_request_sense: code, reserved,
\* key, info (4), length, spec_inf (4), asc, ascq, fruc, spec_key (3)
SenseBytes(rs) ==
  << 112, 0, rs.key, 0, 0, 0, 0, 10, 0, 0, 0, 0, rs.asc, rs.ascq, 0, 0, 0, 0 >>

cmd6_request_sense(d) ==
  [res |-> 1,
   d |-> [d EXCEPT !.scsi_len = Len(SenseBytes(d.request_sense)),
                   !.resp = SenseBytes(d.request_sense),
                   !.request_sense = [key |-> 0, asc |-> 0, ascq |-> 0]]]

cmd6_inquiry(d) ==
  LET cb1 == d.cbw.cb1
      cb2 == d.cbw.cb2
  IN IF (cb1 \div 2) # 0 THEN err_invalid_field(d)
     ELSE IF cb1 % 2 = 1
     THEN CASE cb2 = 0   -> [res |-> 1, d |-> [d EXCEPT !.scsi_len = 6]]
            [] cb2 = 128 -> [res |-> 1, d |-> [d EXCEPT !.scsi_len = 20]]
            [] cb2 = 131 -> [res |-> 1, d |-> [d EXCEPT !.scsi_len = 28]]
            [] OTHER     -> err_invalid_field(d)
     ELSE [res |-> 1, d |-> [d EXCEPT !.scsi_len = 36]]

\* SCSI_USE_CACHE is defined: header (4) + cache page (20) + control page (12)
cmd6_mode_sense(d) == [res |-> 1, d |-> [d EXCEPT !.scsi_len = 36]]

cmd6_start_stop_unit(d) == [res |-> 0, d |-> d]

cmd6_prevent_media_removal(d) == [res |-> 0, d |-> d]

cmd6(d) ==
  IF d.cbw.cb_len < 6 THEN err_illegal(d)
  ELSE CASE d.cbw.op = SCSI_CMD6_TEST_READY       -> cmd6_test_ready(d)
         [] d.cbw.op = SCSI_CMD6_REQUEST_SENSE    -> cmd6_request_sense(d)
         [] d.cbw.op = SCSI_CMD6_INQUIRY          -> cmd6_inquiry(d)
         [] d.cbw.op = SCSI_CMD6_MODE_SENSE       -> cmd6_mode_sense(d)
         [] d.cbw.op = SCSI_CMD6_START_STOP_UNIT  -> cmd6_start_stop_unit(d)
         [] d.cbw.op = SCSI_CMD6_PA_MEDIA_REMOVAL -> cmd6_prevent_media_removal(d)
         [] OTHER -> err_illegal(d)

\* The default LUN hooks of main.c (rd, wr, wr_preload, wr_complete) all
\* report success; each call of a hook that succeeds is recorded in hook.
\* usb_ep_rx has not run
NoCopy == [buf |-> "none", lo |-> 0, hi |-> 0]

\* no endpoint register update of the main loop is under way
NoRmw == [pend |-> FALSE, ep |-> 0, dir |-> 0, w |-> 0, want |-> 0]

DefaultHooks == [rd |-> 1, wr_preload |-> 0, wr |-> 0, wr_complete |-> 0]

\* err_lun of cmd10_read
cmd10_read_err_lun(d) ==
  [res |-> -1,
   d |-> [d EXCEPT !.request_sense.key = 4, !.request_sense.asc = 1]]

cmd10_read(d) ==
  IF d.lun_hooks.rd = 0 THEN cmd10_read_err_lun(d)
  ELSE
  LET addr == (d.cbw.lba + d.scsi_ctx) * 512
      ctx  == d.scsi_ctx + 1
  IN [res |-> IF ctx < d.cbw.nblk THEN 2 ELSE 1,
      d |-> [d EXCEPT !.scsi_len = 512, !.scsi_ctx = ctx,
                      !.hook = << [op |-> "rd", addr |-> addr] >>]]

\* a u32 as it lies in memory (little endian)
Bytes32(x) ==
  << x % 256, (x \div 256) % 256, (x \div 65536) % 256, (x \div 16777216) % 256 >>

\* htonl(x) as it lies in memory: the bytes of x swapped
htonl(x) == LET b == Bytes32(x) IN << b[4], b[3], b[2], b[1] >>

\* rsp->lba = htonl(scsi_lun.capacity); rsp->block_length = htonl(512)
cmd10_read_capacity(d) ==
  LET rsp == htonl(d.scsi_lun.capacity) \o htonl(512)
  IN [res |-> 1, d |-> [d EXCEPT !.scsi_len = Len(rsp), !.resp = rsp]]

\* reserved (3), length = 8, nb_blocks = htonl(16384), type = 2,
\* block_len = htonl(512) & 0xFFFFFF in a field of 24 bits
cmd10_read_format_capacities(d) ==
  LET rsp == << 0, 0, 0, 8 >> \o htonl(16384) \o << 2 >>
             \o SubSeq(htonl(512), 1, 3)
  IN [res |-> 1, d |-> [d EXCEPT !.scsi_len = Len(rsp), !.resp = rsp]]

\* err_write and err_preload of cmd10_write
cmd10_write_err(d) ==
  [res |-> -1,
   d |-> [d EXCEPT !.request_sense.key = 3, !.request_sense.asc = 12]]

\* cmd10_write that writes block k one block too far
cmd10_write_shifted(d) ==
  IF d.scsi_lun.writable = 0
  THEN [res |-> -3,
        d |-> [d EXCEPT !.request_sense.key = 7, !.request_sense.asc = 39]]
  ELSE LET first == (d.scsi_ctx = 0)
           addr  == IF first THEN d.cbw.lba * 512
                    ELSE (d.cbw.lba + d.scsi_ctx) * 512
           h1    == IF first THEN << [op |-> "wr_preload", addr |-> addr] >>
                    ELSE << [op |-> "wr", addr |-> addr] >>
           ctx   == d.scsi_ctx + 1
           more  == (ctx <= d.cbw.nblk)
       IN IF (IF first THEN d.lun_hooks.wr_preload ELSE d.lun_hooks.wr) # 0
          THEN cmd10_write_err(d)
          ELSE IF ~more /\ d.lun_hooks.wr_complete # 0
          THEN cmd10_write_err([d EXCEPT !.scsi_len = 0, !.scsi_ctx = ctx,
                                         !.hook = h1])
          ELSE
          [res |-> IF more THEN 3 ELSE 0,
           d |-> [d EXCEPT
                    !.scsi_len = 0, !.scsi_ctx = ctx,
                    !.hook = IF more THEN h1
                             ELSE h1 \o << [op |-> "wr_complete", addr |-> 0] >>]]

cmd10_write(d) ==
  IF d.scsi_lun.writable = 0
  THEN [res |-> -3,
        d |-> [d EXCEPT !.request_sense.key = 7, !.request_sense.asc = 39]]
  ELSE LET first == (d.scsi_ctx = 0)
           addr  == IF first THEN d.cbw.lba * 512
                    ELSE (d.cbw.lba + d.scsi_ctx - 1) * 512
           h1    == IF first THEN << [op |-> "wr_preload", addr |-> addr] >>
                    ELSE << [op |-> "wr", addr |-> addr] >>
           ctx   == d.scsi_ctx + 1
           more  == (ctx <= d.cbw.nblk)
       IN IF (IF first THEN d.lun_hooks.wr_preload ELSE d.lun_hooks.wr) # 0
          THEN cmd10_write_err(d)
          ELSE IF ~more /\ d.lun_hooks.wr_complete # 0
          THEN cmd10_write_err([d EXCEPT !.scsi_len = 0, !.scsi_ctx = ctx,
                                         !.hook = h1])
          ELSE
          [res |-> IF more THEN 3 ELSE 0,
           d |-> [d EXCEPT
                    !.scsi_len = 0, !.scsi_ctx = ctx,
                    !.hook = IF more THEN h1
                             ELSE h1 \o << [op |-> "wr_complete", addr |-> 0] >>]]

\* READ BUFFER / WRITE BUFFER (scsi_rw_buffer.c) are not in the command set
\* of the host below.
cmd10(d) ==
  IF d.cbw.cb_len < 10 THEN err_illegal(d)
  ELSE CASE d.cbw.op = SCSI_CMD10_READ_FORMAT_CAPACITIES
                                          -> cmd10_read_format_capacities(d)
         [] d.cbw.op = SCSI_CMD10_READ_CAPACITY -> cmd10_read_capacity(d)
         [] d.cbw.op = SCSI_CMD10_READ    -> cmd10_read(d)
         [] d.cbw.op = SCSI_CMD10_WRITE   -> cmd10_write(d)
         [] OTHER -> err_illegal(d)

\* no vendor hook is installed on the default LUN
cmd0_vendor(d) == [res |-> -1, d |-> d]

scsi_command(d0) ==
  LET d == [d0 EXCEPT !.hook = << >>, !.resp = << >>]
      group == (d.cbw.op \div 32) % 8
  IN IF d.cbw.cb_len = 0 THEN [res |-> -1, d |-> d]
     ELSE CASE group = 0        -> cmd6(d)
            [] group \in {1, 2} -> cmd10(d)
            [] group \in {6, 7} -> cmd0_vendor(d)
            [] OTHER            -> err_illegal(d)

\* scsi_get_response(&len)
scsi_get_response(d) == d.scsi_len

\* scsi_set_data(0, &len): adds *len to scsi_len, returns the room left
scsi_set_data(d, len) ==
  LET n == IF len # 0 THEN d.scsi_len + len ELSE d.scsi_len
  IN [avail |-> ScsiBufSize - n, d |-> [d EXCEPT !.scsi_len = n]]

(* ---------------------------------------------------------------------- *)
(* scsi_rw_buffer.c: READ BUFFER and WRITE BUFFER in echo mode            *)
(* ---------------------------------------------------------------------- *)
SCSI_CMD10_WRITE_BUFFER == 59
SCSI_CMD10_READ_BUFFER  == 60

\* sizeof(scsi_echo)
EchoSize == 1024
\* SCSI_BUFFER_SZ: the size of scsi_data
SCSI_BUFFER_SZ == 512

\* the three bytes of a 24-bit field of the CDB, most significant first
Bytes24(v) == << (v \div 65536) % 256, (v \div 256) % 256, v % 256 >>

\* a 24-bit bit-field of the packed request structure, as the processor
\* reads it (least significant byte first)
Field24(b) == b[1] + 256 * b[2] + 65536 * b[3]

\* hton3(v)
hton3(v) ==
  ((v % 256) * 65536) + (((v \div 256) % 256) * 256) + ((v \div 65536) % 256)

\* no command in progress.  lo..hi - 1: the bytes of scsi_echo read or
\* written; rcvd: the bytes of the data-out stage received so far
EchoIdle ==
  [op |-> 0, offset |-> << 0, 0, 0 >>, length |-> << 0, 0, 0 >>, dtl |-> 0,
   rcvd |-> 0, res |-> 0, calls |-> 0, lo |-> 0, hi |-> 0]

\* memcpy between scsi_data and scsi_echo + addr, len bytes
echo_memcpy(d, addr, len) ==
  IF len = 0 THEN d
  ELSE [d EXCEPT
          !.echo_io.lo = IF d.echo_io.hi = 0 \/ addr < @ THEN addr ELSE @,
          !.echo_io.hi = IF addr + len > @ THEN addr + len ELSE @]

\* err_overflow
echo_err_overflow(d) ==
  [res |-> -3,
   d |-> [d EXCEPT !.request_sense = [key |-> 5, asc |-> 36, ascq |-> 0]]]

\* echo_read(ctx, req); ctx->flags is scsi_ctx, ctx->io_len is scsi_len
echo_read(d, req) ==
  LET addr0 == hton3(Field24(req.offset))
      dlen0 == hton3(Field24(req.length))
      flags == d.scsi_ctx
  IN IF flags = 0 /\ dlen0 > 1024 THEN echo_err_overflow(d)
     ELSE LET dlen1 == dlen0 - flags
              addr  == addr0 + flags
              dlen  == IF dlen1 > SCSI_BUFFER_SZ THEN SCSI_BUFFER_SZ ELSE dlen1
          IN IF dlen1 <= 0 THEN [res |-> 0, d |-> d]
             ELSE [res |-> 2,
                   d |-> [echo_memcpy(d, addr, dlen) EXCEPT
                            !.scsi_len = dlen, !.scsi_ctx = flags + dlen]]

\* echo_write(ctx, req); 1024 - addr is an unsigned difference
echo_write(d, req) ==
  LET addr0 == hton3(Field24(req.offset))
      dlen0 == hton3(Field24(req.length))
      flags == d.scsi_ctx
  IN IF flags = 0
     THEN IF addr0 + dlen0 > 1024 THEN echo_err_overflow(d)
          ELSE [res |-> 3, d |-> [d EXCEPT !.scsi_len = 0, !.scsi_ctx = 1]]
     ELSE LET addr == addr0 + (flags - 1)
              len  == IF addr <= 1024 /\ 1024 - addr <= d.scsi_len
                      THEN 1024 - addr ELSE d.scsi_len
              f1   == flags + d.scsi_len
          IN [res |-> IF f1 < dlen0 THEN 3 ELSE 0,
              d |-> [echo_memcpy(d, addr, len) EXCEPT
                       !.scsi_len = 0, !.scsi_ctx = f1]]

\* cmd10_read_buffer / cmd10_write_buffer for a request in mode 0x0A; the
\* permission mask set by scsi_init allows both
cmd10_echo(d, req) ==
  IF req.op = SCSI_CMD10_READ_BUFFER THEN echo_read(d, req)
  ELSE echo_write(d, req)

(* ---------------------------------------------------------------------- *)
(* mem.c and the hooks of the default LUN (main.c)                        *)
(*                                                                        *)
(* Every address of this path is a multiple of 512 and every copy moves   *)
(* whole blocks of 512 bytes: the content of a block is one value, two    *)
(* bits that stand for its bytes.  flash maps the index of a block to its *)
(* content and holds the blocks that are not erased.                      *)
(* ---------------------------------------------------------------------- *)
\* content of an erased block (all bits set)
Erased == 3

\* the AND of two block contents (a page program clears bits only)
And2(a, b) == ((a % 2) * (b % 2)) + 2 * ((a \div 2) * (b \div 2))

\* blocks of 512 bytes in a sector of 4096 bytes
SectorBlocks == 8

\* blocks the three address bytes of a flash command can reach
FlashBlocks == 32768

\* the block addressed by (addr >> 16) & 0xFF, (addr >> 8) & 0xFF, addr & 0xFF
flash_index(addr) == (addr % 16777216) \div 512

FlashAt(f, b) == IF b \in DOMAIN f THEN f[b] ELSE Erased

\* f with the blocks of DOMAIN g set to the content given by g
FlashSet(f, g) ==
  LET keep == {b \in DOMAIN f \cup DOMAIN g :
                 (IF b \in DOMAIN g THEN g[b] ELSE f[b]) # Erased}
  IN [b \in keep |-> IF b \in DOMAIN g THEN g[b] ELSE f[b]]

\* the blocks of the sector of 4 KiB that holds addr
SectorOf(addr) ==
  LET b == flash_index(addr)
  IN {(b - (b % SectorBlocks)) + i : i \in 0..(SectorBlocks - 1)}

\* flash_erase(channel, addr): block erase (4k)
flash_erase(f, addr) == FlashSet(f, [b \in SectorOf(addr) |-> Erased])

\* flash_write(channel, buffer, addr, 4096): sixteen page programs
flash_write(f, buffer, addr) ==
  LET first == flash_index(addr)
  IN FlashSet(f, [b \in {first + i : i \in 0..(SectorBlocks - 1)} |->
                    And2(FlashAt(f, b), buffer[b - first + 1])])

\* flash_read(channel, buffer, addr, 512)
flash_read(f, addr) == FlashAt(f, flash_index(addr))

\* addr & 0xFFFFF000
PageOf(addr) == addr - (addr % 4096)

\* mem_read(0, addr, 512, 0): the sector of addr is read into the cache
mem_read_cache(d, addr) ==
  LET base == PageOf(addr)
  IN [d EXCEPT !.nodes.cache_addr = base,
               !.nodes.cache_buffer =
                  [i \in 1..SectorBlocks |->
                     flash_read(d.flash, base + 512 * (i - 1))],
               !.lun_io.dirty = {}]

\* mem_write(0, 0, 0, 0) that programs the sector without erasing it
mem_write_cache_noerase(d) ==
  [d EXCEPT !.flash = flash_write(@, d.nodes.cache_buffer, d.nodes.cache_addr),
            !.lun_io.dirty = {}]

\* mem_write(0, 0, 0, 0): the cache is written to its sector
mem_write_cache(d) ==
  [d EXCEPT !.flash = flash_write(flash_erase(@, d.nodes.cache_addr),
                                  d.nodes.cache_buffer, d.nodes.cache_addr),
            !.lun_io.dirty = {}]

\* mem_read(0, addr, 4096, out): the eight blocks read into out
mem_read_buf(d, addr) ==
  [i \in 1..SectorBlocks |-> flash_read(d.flash, addr + 512 * (i - 1))]

\* mem_erase(0, addr, len)
mem_erase(d, addr) ==
  IF addr % 4096 = 0 THEN [d EXCEPT !.flash = flash_erase(@, addr)] ELSE d

\* mem_write(0, addr, 512, buffer), data the content of buffer
mem_write_buf(d, addr, data) ==
  LET f1 == IF addr % 4096 = 0 THEN flash_erase(d.flash, addr) ELSE d.flash
      b  == flash_index(addr)
  IN [d EXCEPT !.flash = FlashSet(f1, [x \in {b} |-> And2(FlashAt(f1, b), data)])]

\* memcpy(node->cache_buffer + (addr & 0xFFF), data, 512)
cache_copy(d, addr, data) ==
  LET i == ((addr % 4096) \div 512) + 1
  IN [d EXCEPT !.nodes.cache_buffer[i] = data,
               !.lun_io.dirty = @ \cup {i}]

\* default_lun_rd(addr, 512, scsi_data): the block read from the flash
default_lun_rd(d, addr) == flash_read(d.flash, addr)

default_lun_wr_preload(d, addr) == mem_read_cache(d, addr)

\* default_lun_wr(addr, 512, scsi_data), data the content of scsi_data
default_lun_wr(d, addr, data) ==
  LET d1 == IF PageOf(addr) # d.nodes.cache_addr
            THEN mem_read_cache(mem_write_cache(d), addr)
            ELSE d
  IN cache_copy(d1, addr, data)

default_lun_wr_complete(d) == mem_write_cache(d)

\* the hooks a dispatcher call has made, run on the memory in their order
RECURSIVE RunHooks(_, _, _)
RunHooks(d, hooks, data) ==
  IF hooks = << >> THEN d
  ELSE LET h  == Head(hooks)
           d1 == CASE h.op = "wr_preload"  -> default_lun_wr_preload(d, h.addr)
                   [] h.op = "wr"          -> default_lun_wr(d, h.addr, data)
                   [] h.op = "wr_complete" -> default_lun_wr_complete(d)
                   [] OTHER                -> d
       IN RunHooks(d1, Tail(hooks), data)

LunIdle ==
  [op |-> "idle", lba |-> 0, n |-> 0, pat |-> "zero", k |-> 0, last |-> 0,
   cnt |-> 0,
   \* observation: the blocks of the cache changed since it was last read
   \* from or written to the flash
   dirty |-> {},
   \* observation: the hook calls and the results of the dispatcher calls
   \* of the command in progress
   log |-> << >>, rets |-> << >>,
   \* observation: the flash when the command in progress was received
   f0 |-> << >>,
   \* observation: the most iterations a status-poll loop of the command
   \* has made, and whether one ended on an error or with the chip busy
   polls |-> 0, fail |-> FALSE]

(* ---------------------------------------------------------------------- *)
(* Observation of one transaction (not firmware state)                    *)
(* ---------------------------------------------------------------------- *)
CapInc(n) == IF n < 2 THEN n + 1 ELSE n

TxnIdle(rxlen) ==
  [phase |-> "idle", tag |-> 0, dtl |-> 0, dirin |-> FALSE, res |-> 0,
   dlen |-> 0, ctx0 |-> 0, valid |-> TRUE, rxlen |-> rxlen,
   din |-> 0, dout |-> 0, wr |-> 0, ncsw |-> 0, nsent |-> 0,
   stall |-> {}, cleared |-> {}, path |-> {},
   \* the negative result of a dispatcher call of the transaction, if any
   err |-> 0,
   \* the number of dispatcher calls of the transaction
   calls |-> 0]

\* bytes handed to the LUN write hook by one dispatcher call
WrBytes(h) == 512 * Cardinality({i \in DOMAIN h : h[i].op = "wr"})

(* ---------------------------------------------------------------------- *)
(* usb.c                                                                  *)
(* ---------------------------------------------------------------------- *)
\* The STATRX/STATTX bits are toggle bits: the hardware exclusive-ors the
\* field with the bits written.
HwToggle(cur, written) == Xor2(cur, written)

\* usb_send(ep, data, len): copy to packet memory, STATTX ^= 3 on the value
\* read back.
usb_send(d, ep, pkt) ==
  LET d1 == [d EXCEPT
               !.chep[ep].tx = HwToggle(@, Xor2(@, USB_EP_VALID)),
               !.in_pkt = IF ep = EP_IN THEN pkt ELSE @,
               !.ep0_pkt = IF ep # 0 THEN @
                           ELSE [len |-> pkt.len,
                                 b0  |-> IF pkt.kind = "byte" THEN pkt.b0
                                         ELSE @.b0],
               !.txn.ncsw = IF ep = EP_IN /\ pkt.kind = "csw"
                            THEN CapInc(@) ELSE @]
  IN IF ep = 0 /\ d.hw_in /\ d1.chep[0].tx = USB_EP_VALID
     THEN \* the host's IN token arrives now: the packet leaves and the
          \* hardware sets STATTX to NAK
          [d1 EXCEPT !.chep[0].tx = USB_EP_NAK, !.ep0_got = d1.ep0_pkt,
                     !.hw_in = FALSE]
     ELSE d1

\* usb_ep_set_state that writes the wanted status into the toggle bits
\* without the exclusive or with the status read back
usb_ep_set_state_direct(d, ep, dir, st) ==
  LET prev == IF dir = 1 THEN d.chep[ep].tx ELSE d.chep[ep].rx
      d1   == IF st = prev THEN d
              ELSE IF dir = 1
                   THEN [d EXCEPT !.chep[ep].tx = HwToggle(@, st)]
                   ELSE [d EXCEPT !.chep[ep].rx = HwToggle(@, st)]
  IN IF st = USB_EP_STALL
     THEN [d1 EXCEPT !.txn.stall = @ \cup {IF dir = 1 THEN "IN" ELSE "OUT"}]
     ELSE d1

\* usb_ep_set_state(ep | dir, state): dir = 1 for the IN (TX) direction
usb_ep_set_state(d, ep, dir, st) ==
  LET prev == IF dir = 1 THEN d.chep[ep].tx ELSE d.chep[ep].rx
      w    == Xor2(prev, st)
      d1   == IF st = prev THEN d
              ELSE IF dir = 1
                   THEN [d EXCEPT !.chep[ep].tx = HwToggle(@, w)]
                   ELSE [d EXCEPT !.chep[ep].rx = HwToggle(@, w)]
  IN IF st = USB_EP_STALL
     THEN [d1 EXCEPT !.txn.stall = @ \cup {IF dir = 1 THEN "IN" ELSE "OUT"}]
     ELSE d1

\* usb_ep_configure(ep, type, def): the word written holds 3 in STATRX when
\* an rx callback is given and 2 in STATTX when a tx_complete callback is
\* given; it is not combined with the current value of the register.
usb_ep_configure(d, ep, def) ==
  IF ep = 0 \/ ep > 7 THEN d
  ELSE [d EXCEPT
          !.ep_defs[ep] = def,
          !.chep[ep].rx = HwToggle(@, IF def.rx THEN 3 ELSE 0),
          !.chep[ep].tx = HwToggle(@, IF def.tx_complete THEN 2 ELSE 0)]

\* ep0_send(data, len): STATTX of EP0 ^= 3 on the value read back
ep0_send(d) ==
  [d EXCEPT !.chep[0].tx = HwToggle(@, Xor2(@, USB_EP_VALID)),
            !.ep0_pkt.len = 0]

\* ep0_config(): CHEP0R written with STATRX = 3, STATTX = 2
ep0_config(d) ==
  [d EXCEPT !.chep[0].rx = HwToggle(@, 3), !.chep[0].tx = HwToggle(@, 2)]

(* ---------------------------------------------------------------------- *)
(* usb_msc.c                                                              *)
(* ---------------------------------------------------------------------- *)
CswZero == [signature |-> 0, tag |-> 0, residue |-> 0, status |-> 0]

DataPkt(len) == [kind |-> "data", len |-> len, csw |-> CswZero]
CswPkt(c)    == [kind |-> "csw", len |-> CswLen, csw |-> c]
NoPkt        == [kind |-> "none", len |-> 0, csw |-> CswZero]

DirIn(flags) == ((flags \div 128) % 2) = 1

\* number of data bytes the command transfers on its own, from the first
\* dispatcher call on: READ(10)/WRITE(10) iterate 512-byte blocks from the
\* iteration counter found at the first call, other commands have one
\* segment.
DevLen(c, ctx0, res, len) ==
  IF res \in {1, 2}
  THEN IF c.op = SCSI_CMD10_READ /\ c.cb_len >= 10
       THEN 512 * (IF c.nblk - ctx0 > 1 THEN c.nblk - ctx0 ELSE 1)
       ELSE len
  ELSE IF res \in {3, 4} THEN 512 * (c.nblk - ctx0)
  ELSE 0

\* the "err:" label of fsm_cbw
fsm_cbw_err(d) ==
  LET st == IF d.csw.status = 0 THEN 1 ELSE d.csw.status
  IN IF d.cbw.data_length = 0
     THEN [d EXCEPT !.csw.status = st, !.fsm_state = MSC_ST_CSW]
     ELSE LET d1 == [d EXCEPT !.csw.status = st,
                              !.csw.residue = d.cbw.data_length,
                              !.fsm_state = MSC_ST_ERROR]
          IN IF DirIn(d.cbw.flags)
             THEN usb_ep_set_state(d1, EP_IN, 1, USB_EP_STALL)
             ELSE usb_ep_set_state(d1, EP_OUT, 0, USB_EP_STALL)

\* first packet of an IN segment: min(64, data_len) bytes
SendFirst(d) ==
  IF ULt(MaxPacket, d.data_len)
  THEN usb_send([d EXCEPT !.data_offset = MaxPacket], EP_IN, DataPkt(MaxPacket))
  ELSE usb_send([d EXCEPT !.data_offset = d.data_len], EP_IN, DataPkt(d.data_len))

\* fsm_cbw, host without data stage (Hn) and a command with one, reporting
\* the command as passed
fsm_cbw_hn_passed(d) ==
  [d EXCEPT !.csw.status = 0, !.csw.residue = 0, !.fsm_state = MSC_ST_CSW]

\* fsm_cbw, "if (cbw.data_length == 0)" of the cases 1/2 and 3/4: the host
\* wants no data stage (Hn) and the command has one
fsm_cbw_hn(d) ==
  [d EXCEPT !.csw.status = 2, !.csw.residue = 0, !.fsm_state = MSC_ST_CSW]

fsm_cbw(d0) ==
  IF d0.rx_flag = 0 THEN d0
  ELSE
  LET d1 == [d0 EXCEPT !.rx_flag = 0, !.csw = CswZero]
      r  == scsi_command(d1)
      \* observation: a new transaction starts
      d  == [r.d EXCEPT !.txn =
               [TxnIdle(d0.txn.rxlen) EXCEPT
                  !.phase = "open", !.tag = d0.cbw.tag,
                  !.dtl = d0.cbw.data_length, !.dirin = DirIn(d0.cbw.flags),
                  !.res = r.res, !.ctx0 = d0.scsi_ctx,
                  !.err = IF r.res < 0 THEN r.res ELSE 0, !.calls = 1,
                  !.dlen = DevLen(d0.cbw, d0.scsi_ctx, r.res, r.d.scsi_len),
                  !.valid = /\ d0.txn.rxlen = CbwLen
                            /\ d0.cbw.signature = CBW_SIGNATURE
                            /\ d0.cbw.cb_len \in 1..16
                            /\ d0.cbw.lun < 1]]
      res == r.res
  IN CASE res = 0 ->
            IF d.cbw.data_length # 0
            THEN fsm_cbw_err([d EXCEPT !.csw.status = 0])
            ELSE [d EXCEPT !.fsm_state = MSC_ST_CSW]
       [] res \in {1, 2} ->
            IF d.cbw.data_length = 0
            THEN fsm_cbw_hn(d)
            ELSE IF ~DirIn(d.cbw.flags)
            THEN usb_ep_set_state(
                   [d EXCEPT !.csw.status = 2, !.csw.residue = 0,
                             !.fsm_state = MSC_ST_ERROR],
                   EP_OUT, 0, USB_EP_STALL)
            ELSE LET len == UMin(scsi_get_response(d), d.cbw.data_length)
                 IN SendFirst([d EXCEPT !.data_offset = 0,
                                        !.csw.residue = d.cbw.data_length,
                                        !.data_len = len,
                                        !.fsm_state = MSC_ST_DATA_IN,
                                        !.data_more = IF res = 1 THEN 0 ELSE 1])
       [] res \in {3, 4} ->
            IF d.cbw.data_length = 0
            THEN fsm_cbw_hn(d)
            ELSE IF DirIn(d.cbw.flags)
            THEN usb_ep_set_state(
                   [d EXCEPT !.csw.status = 2, !.csw.residue = 0,
                             !.fsm_state = MSC_ST_ERROR],
                   EP_IN, 1, USB_EP_STALL)
            ELSE LET sd == scsi_set_data(d, 0)
                 IN usb_ep_set_state(
                      [sd.d EXCEPT !.csw.residue = d.cbw.data_length,
                                   !.data_offset = 0,
                                   !.data_len = UMin(sd.avail, d.cbw.data_length),
                                   !.fsm_state = MSC_ST_DATA_OUT,
                                   !.rx_flag = 0],
                      EP_OUT, 0, USB_EP_VALID)
       [] res \in {-1, -2, -3} -> fsm_cbw_err(d)
       [] OTHER -> d

\* fsm_csw with the tag of the CSW left as the memset of fsm_cbw made it
fsm_csw_no_tag(d) ==
  IF d.err_flag = 2 THEN d
  ELSE
  LET d1 == IF d.csw.signature = 0
            THEN LET c == [d.csw EXCEPT !.signature = CSW_SIGNATURE]
                 IN usb_send([scsi_complete(d) EXCEPT !.csw = c],
                             EP_IN, CswPkt(c))
            ELSE d
  IN IF d1.tx_flag = 1
     THEN usb_ep_set_state(
            [d1 EXCEPT !.tx_flag = 0, !.rx_flag = 0, !.err_flag = 0,
                       !.fsm_state = MSC_ST_CBW,
                       !.txn = IF @.phase = "open"
                               THEN [TxnIdle(@.rxlen) EXCEPT
                                       !.phase = "closed", !.tag = d1.txn.tag,
                                       !.ncsw = d1.txn.ncsw,
                                       !.nsent = d1.txn.nsent]
                               ELSE @],
            EP_OUT, 0, USB_EP_VALID)
     ELSE d1

fsm_csw(d) ==
  IF d.err_flag = 2 THEN d
  ELSE
  LET d1 == IF d.csw.signature = 0
            THEN LET c == [d.csw EXCEPT !.signature = CSW_SIGNATURE,
                                        !.tag = d.cbw.tag]
                 IN usb_send([scsi_complete(d) EXCEPT !.csw = c],
                             EP_IN, CswPkt(c))
            ELSE d
  IN IF d1.tx_flag = 1
     THEN usb_ep_set_state(
            [d1 EXCEPT !.tx_flag = 0, !.rx_flag = 0, !.err_flag = 0,
                       !.fsm_state = MSC_ST_CBW,
                       !.txn = IF @.phase = "open"
                               THEN [TxnIdle(@.rxlen) EXCEPT
                                       !.phase = "closed", !.tag = d1.txn.tag,
                                       !.ncsw = d1.txn.ncsw,
                                       !.nsent = d1.txn.nsent]
                               ELSE @],
            EP_OUT, 0, USB_EP_VALID)
     ELSE d1

fsm_data_in_err(d) ==
  usb_ep_set_state([d EXCEPT !.fsm_state = MSC_ST_ERROR], EP_IN, 1, USB_EP_STALL)

\* fsm_data_in that leaves tx_flag set when it has seen it
fsm_data_in_keep_flag(d0) ==
  IF d0.tx_flag = 0 THEN d0
  ELSE
  LET d1 == [d0 EXCEPT !.csw.residue = IF ~ULt(@, d0.data_offset)
                                       THEN @ - d0.data_offset ELSE 0]
  IN IF d1.data_more = 0 THEN [d1 EXCEPT !.fsm_state = MSC_ST_CSW]
     ELSE LET r == scsi_command(d1)
              d == [r.d EXCEPT !.txn.err = IF r.res < 0 THEN r.res ELSE @,
                               !.txn.calls = @ + 1]
          IN CASE r.res = 0 -> [d EXCEPT !.fsm_state = MSC_ST_CSW]
               [] r.res \in {1, 2} ->
                    SendFirst([d EXCEPT
                                 !.data_offset = 0,
                                 !.data_len = UMin(scsi_get_response(d), d.csw.residue),
                                 !.data_more = IF r.res = 1 THEN 0 ELSE 1])
               [] OTHER -> fsm_data_in_err(d)

fsm_data_in(d0) ==
  IF d0.tx_flag = 0 THEN d0
  ELSE
  LET d1 == [d0 EXCEPT !.tx_flag = 0,
                       !.csw.residue = IF ~ULt(@, d0.data_offset)
                                       THEN @ - d0.data_offset ELSE 0]
  IN IF d1.data_more = 0 THEN [d1 EXCEPT !.fsm_state = MSC_ST_CSW]
     ELSE LET r == scsi_command(d1)
              d == [r.d EXCEPT !.txn.err = IF r.res < 0 THEN r.res ELSE @,
                               !.txn.calls = @ + 1]
          IN CASE r.res = 0 -> [d EXCEPT !.fsm_state = MSC_ST_CSW]
               [] r.res \in {1, 2} ->
                    SendFirst([d EXCEPT
                                 !.data_offset = 0,
                                 !.data_len = UMin(scsi_get_response(d), d.csw.residue),
                                 !.data_more = IF r.res = 1 THEN 0 ELSE 1])
               [] OTHER -> fsm_data_in_err(d)

\* fsm_data_out that goes to CSW when the command is complete, whatever the
\* residue
fsm_data_out_no_stall(d0) ==
  IF d0.rx_flag = 0 THEN d0
  ELSE
  LET d1 == [d0 EXCEPT !.rx_flag = 0,
                       !.csw.residue = @ - d0.data_offset]
      r  == scsi_command(d1)
      d  == [r.d EXCEPT !.txn.wr = @ + WrBytes(r.d.hook),
                        !.txn.err = IF r.res < 0 THEN r.res ELSE @,
                        !.txn.calls = @ + 1]
  IN CASE r.res = 0 -> [d EXCEPT !.fsm_state = MSC_ST_CSW]
       [] r.res = 3 ->
            LET sd == scsi_set_data(d, 0)
            IN usb_ep_set_state(
                 [sd.d EXCEPT !.data_offset = 0,
                              !.data_len = UMin(sd.avail, d.csw.residue),
                              !.fsm_state = MSC_ST_DATA_OUT,
                              !.rx_flag = 0],
                 EP_OUT, 0, USB_EP_VALID)
       [] OTHER -> d

fsm_data_out(d0) ==
  IF d0.rx_flag = 0 THEN d0
  ELSE
  LET d1 == [d0 EXCEPT !.rx_flag = 0,
                       !.csw.residue = @ - d0.data_offset]
      r  == scsi_command(d1)
      d  == [r.d EXCEPT !.txn.wr = @ + WrBytes(r.d.hook),
                        !.txn.err = IF r.res < 0 THEN r.res ELSE @,
                        !.txn.calls = @ + 1]
  IN CASE r.res = 0 ->
            IF d.csw.residue # 0
            THEN usb_ep_set_state(
                   [d EXCEPT !.csw.status = 0, !.fsm_state = MSC_ST_ERROR],
                   EP_OUT, 0, USB_EP_STALL)
            ELSE [d EXCEPT !.fsm_state = MSC_ST_CSW]
       [] r.res = 3 ->
            LET sd == scsi_set_data(d, 0)
            IN usb_ep_set_state(
                 [sd.d EXCEPT !.data_offset = 0,
                              !.data_len = UMin(sd.avail, d.csw.residue),
                              !.fsm_state = MSC_ST_DATA_OUT,
                              !.rx_flag = 0],
                 EP_OUT, 0, USB_EP_VALID)
       [] OTHER -> d

fsm_error(d) ==
  IF d.err_flag = 0 THEN d
  ELSE [d EXCEPT !.err_flag = 0, !.fsm_state = MSC_ST_CSW]

\* _periodic(): reset recovery first, then the handler of the current state
periodic_reset(d) ==
  IF d.rst_flag # 0
  THEN LET d1 == [d EXCEPT !.fsm_state = MSC_ST_CBW, !.data_more = 0,
                           !.data_offset = 0, !.rx_flag = 0, !.tx_flag = 0,
                           !.err_flag = 0, !.rst_flag = 0]
       IN IF d.rst_flag = 1 THEN usb_send(d1, 0, NoPkt) ELSE d1
  ELSE d

_periodic(d0) ==
  LET d == periodic_reset(d0)
  IN CASE d.fsm_state = MSC_ST_CBW      -> fsm_cbw(d)
       [] d.fsm_state = MSC_ST_DATA_IN  -> fsm_data_in(d)
       [] d.fsm_state = MSC_ST_DATA_OUT -> fsm_data_out(d)
       [] d.fsm_state = MSC_ST_CSW      -> fsm_csw(d)
       [] d.fsm_state = MSC_ST_ERROR    -> fsm_error(d)
       [] OTHER -> [d EXCEPT !.fsm_state = MSC_ST_CBW]

\* usb_ep_release that lets the endpoint go back to VALID in every state
usb_ep_release_valid(d, ep) ==
  [res |-> 0,
   d |-> IF d.fsm_state \in {MSC_ST_ERROR, MSC_ST_CSW}
         THEN [d EXCEPT !.err_flag = 1] ELSE d]

\* usb_ep_release(ep): 0 = VALID, 1 = NAK
usb_ep_release(d, ep) ==
  [res |-> IF d.fsm_state = MSC_ST_CBW /\ ep = 2 THEN 0 ELSE 1,
   d |-> IF d.fsm_state \in {MSC_ST_ERROR, MSC_ST_CSW}
         THEN [d EXCEPT !.err_flag = 1] ELSE d]

\* copy of the first words of a packet over the CBW record; the fields are
\* grouped by the 32-bit word that holds them
CopyCbw(old, p, len) ==
  LET n == WordsOf(len)
  IN [signature   |-> IF n >= 1 THEN p.signature ELSE old.signature,
      tag         |-> IF n >= 2 THEN p.tag ELSE old.tag,
      data_length |-> IF n >= 3 THEN p.data_length ELSE old.data_length,
      flags       |-> IF n >= 4 THEN p.flags ELSE old.flags,
      lun         |-> IF n >= 4 THEN p.lun ELSE old.lun,
      cb_len      |-> IF n >= 4 THEN p.cb_len ELSE old.cb_len,
      op          |-> IF n >= 4 THEN p.op ELSE old.op,
      cb1         |-> IF n >= 5 THEN p.cb1 ELSE old.cb1,
      cb2         |-> IF n >= 5 THEN p.cb2 ELSE old.cb2,
      lba         |-> IF n >= 6 THEN p.lba ELSE old.lba,
      nblk        |-> IF n >= 6 THEN p.nblk ELSE old.nblk]

\* usb_ep_rx that raises rx_flag at every packet of the data-out stage
usb_ep_rx_flag_each(d, p) ==
  IF d.fsm_state = MSC_ST_DATA_OUT
  THEN LET avail == scsi_set_data(d, 0).avail
           len   == UMin(p.len, avail)
           i     == 4 * WordsOf(len)
           d1    == scsi_set_data(d, i).d
           off   == d.data_offset + len
           d2    == [d1 EXCEPT !.data_offset = off, !.txn.dout = @ + len]
       IN [res |-> 0, d |-> [d2 EXCEPT !.rx_flag = 1]]
  ELSE LET len == Min(p.len, SizeofCbw)
       IN [res |-> 0,
           d |-> [d EXCEPT !.cbw = CopyCbw(d.cbw, p, len), !.rx_flag = 1,
                           !.txn.rxlen = p.len]]

\* usb_ep_rx(data, len): 1 = keep the endpoint VALID, 0 = NAK
\* usb_ep_rx without the two clamps of the packet length
usb_ep_rx_unclamped(d, p) ==
  IF d.fsm_state = MSC_ST_DATA_OUT
  THEN LET len   == p.len
           i     == 4 * WordsOf(len)
           d1    == scsi_set_data(d, i).d
           off   == d.data_offset + len
           d2    == [d1 EXCEPT !.data_offset = off, !.txn.dout = @ + len,
                               !.rx_copy = [buf |-> "data", lo |-> d.scsi_len,
                                            hi |-> d.scsi_len + i]]
       IN IF ~ULt(off, d.data_len)
          THEN [res |-> 0, d |-> [d2 EXCEPT !.rx_flag = 1]]
          ELSE [res |-> 1, d |-> d2]
  ELSE LET len == p.len
       IN [res |-> 0,
           d |-> [d EXCEPT !.cbw = CopyCbw(d.cbw, p, len), !.rx_flag = 1,
                           !.txn.rxlen = p.len,
                           !.rx_copy = [buf |-> "cbw", lo |-> 0,
                                        hi |-> 4 * WordsOf(len)]]]

usb_ep_rx(d, p) ==
  IF d.fsm_state = MSC_ST_DATA_OUT
  THEN LET avail == scsi_set_data(d, 0).avail
           len   == UMin(p.len, avail)
           i     == 4 * WordsOf(len)
           d1    == scsi_set_data(d, i).d
           off   == d.data_offset + len
           d2    == [d1 EXCEPT !.data_offset = off, !.txn.dout = @ + len,
                               !.rx_copy = [buf |-> "data", lo |-> d.scsi_len,
                                            hi |-> d.scsi_len + i]]
       IN IF ~ULt(off, d.data_len)
          THEN [res |-> 0, d |-> [d2 EXCEPT !.rx_flag = 1]]
          ELSE [res |-> 1, d |-> d2]
  ELSE LET len == Min(p.len, SizeofCbw)
       IN [res |-> 0,
           d |-> [d EXCEPT !.cbw = CopyCbw(d.cbw, p, len), !.rx_flag = 1,
                           !.txn.rxlen = p.len,
                           !.rx_copy = [buf |-> "cbw", lo |-> 0,
                                        hi |-> 4 * WordsOf(len)]]]

\* usb_ep_tx that reports the segment as sent when its last packet is queued
usb_ep_tx_early(d) ==
  IF d.fsm_state = MSC_ST_DATA_IN
  THEN IF d.data_offset = d.data_len
       THEN [res |-> 0, d |-> [d EXCEPT !.tx_flag = 1]]
       ELSE LET remains == d.data_len - d.data_offset
                n       == UMin(remains, MaxPacket)
            IN [res |-> 1,
                d |-> [usb_send(d, EP_IN, DataPkt(n)) EXCEPT
                         !.data_offset = @ + n,
                         !.tx_flag = IF n = remains THEN 1 ELSE @]]
  ELSE IF d.fsm_state = MSC_ST_CSW
  THEN [res |-> 0, d |-> [d EXCEPT !.tx_flag = 1]]
  ELSE [res |-> 0, d |-> d]

\* usb_ep_tx(): 1 = a further packet was queued
usb_ep_tx(d) ==
  IF d.fsm_state = MSC_ST_DATA_IN
  THEN IF d.data_offset = d.data_len
       THEN [res |-> 0, d |-> [d EXCEPT !.tx_flag = 1]]
       ELSE LET remains == d.data_len - d.data_offset
                n       == UMin(remains, MaxPacket)
            IN [res |-> 1,
                d |-> [usb_send(d, EP_IN, DataPkt(n)) EXCEPT !.data_offset = @ + n]]
  ELSE IF d.fsm_state = MSC_ST_CSW
  THEN [res |-> 0, d |-> [d EXCEPT !.tx_flag = 1]]
  ELSE [res |-> 0, d |-> d]

\* usb_if_enable(cfg_id)
usb_if_enable(d) ==
  usb_ep_configure(
    usb_ep_configure(d, EP_OUT,
                     [release |-> TRUE, rx |-> TRUE, tx_complete |-> FALSE]),
    EP_IN, [release |-> TRUE, rx |-> FALSE, tx_complete |-> TRUE])

\* usb_if_reset()
\* usb_if_reset that does not leave the reset to the main loop
usb_if_reset_noflag(d) == scsi_reset(d)

usb_if_reset(d) == scsi_reset([d EXCEPT !.rst_flag = 2])

(* ---------------------------------------------------------------------- *)
(* The host                                                               *)
(* ---------------------------------------------------------------------- *)
\* lengths a host declares in dCBWDataTransferLength
DtlShort == {0, 4, 8, 64}
DtlBlock == {128} \cup {512 * k : k \in 0..(MaxBlocks + 1)}

Pkt(len, sig, tag, dtl, flags, lun, cb_len, op, cb1, cb2, lba, nblk) ==
  [len |-> len, signature |-> sig, tag |-> tag, data_length |-> dtl,
   flags |-> flags, lun |-> lun, cb_len |-> cb_len, op |-> op,
   cb1 |-> cb1, cb2 |-> cb2, lba |-> lba, nblk |-> nblk]

\* well-formed CBWs
CbwShortCmd(t) ==
  { Pkt(CbwLen, CBW_SIGNATURE, t, n, f, 0, 6, SCSI_CMD6_TEST_READY, 0, 0, 0, 0) :
      n \in {0, 8}, f \in {0, 128} }
  \cup
  { Pkt(CbwLen, CBW_SIGNATURE, t, n, f, 0, 10, SCSI_CMD10_READ_CAPACITY, 0, 0, 0, 0) :
      n \in DtlShort, f \in {0, 128} }
  \cup
  { Pkt(CbwLen, CBW_SIGNATURE, t, 18, 128, 0, 6, SCSI_CMD6_REQUEST_SENSE, 0, 0, 0, 0),
    Pkt(CbwLen, CBW_SIGNATURE, t, 0, 0, 0, 12, OpUnknown, 0, 0, 0, 0) }

CbwBlockCmd(t) ==
  { Pkt(CbwLen, CBW_SIGNATURE, t, n, f, 0, 10, op, 0, 0, a, k) :
      n \in DtlBlock, f \in {0, 128},
      op \in {SCSI_CMD10_READ, SCSI_CMD10_WRITE},
      a \in 0..MaxLba, k \in 1..MaxBlocks }

\* malformed CBWs: wrong signature, short and long packet, bCBWCBLength of
\* 0 and 17, a LUN that does not exist
CbwMalformed(t) ==
  { Pkt(CbwLen, 0, t, 0, 128, 0, 6, SCSI_CMD6_TEST_READY, 0, 0, 0, 0),
    Pkt(12, CBW_SIGNATURE, t, 0, 0, 0, 0, 0, 0, 0, 0, 0),
    Pkt(MaxPacket, CBW_SIGNATURE, t, 0, 128, 0, 6, SCSI_CMD6_TEST_READY, 0, 0, 0, 0),
    Pkt(CbwLen, CBW_SIGNATURE, t, 0, 128, 0, 0, SCSI_CMD6_TEST_READY, 0, 0, 0, 0),
    Pkt(CbwLen, CBW_SIGNATURE, t, 0, 128, 0, 17, SCSI_CMD6_TEST_READY, 0, 0, 0, 0),
    Pkt(CbwLen, CBW_SIGNATURE, t, 0, 128, 1, 6, SCSI_CMD6_TEST_READY, 0, 0, 0, 0) }

HostCbws(t) == CbwShortCmd(t) \cup CbwBlockCmd(t) \cup CbwMalformed(t)

\* a packet of the data-out stage
OutData(len) == Pkt(len, 0, 0, 0, 0, 0, 0, 0, 0, 0, 0, 0)

\* usb_ctrl_request
Req(t, b, v, i, l) ==
  [bmRequestType |-> t, bRequest |-> b, wValue |-> v, wIndex |-> i,
   wLength |-> l]

HostOff == [enum |-> "off", ctrl |-> "idle", rr |-> "none", busy |-> FALSE,
            dtl |-> 0, dirin |-> FALSE, sent |-> 0,
            ncbw |-> 0, nbus |-> 0, nrst |-> 0,
            \* what the data stage of the last control read delivered
            got |-> [len |-> 0, b0 |-> 0],
            \* the opcodes of the commands sent by HostSendScsi
            ops |-> << >>,
            \* the SETUP packet of the control transfer in progress
            req |-> Req(0, 0, 0, 0, 0)]

Configured == host.enum = "configured"

(* ---------------------------------------------------------------------- *)
(* time.c                                                                 *)
(* ---------------------------------------------------------------------- *)
\* A u32 is kept as its two 16-bit halves: sums, differences and products
\* are the ones of the 32-bit registers.
Half == 65536

U32(n) == [hi |-> (n \div Half) % Half, lo |-> n % Half]

Add32(a, b) ==
  LET lo == a.lo + b.lo
  IN [hi |-> (a.hi + b.hi + lo \div Half) % Half, lo |-> lo % Half]

Sub32(a, b) ==
  LET lo == a.lo - b.lo
  IN [hi |-> (a.hi - b.hi - (IF lo < 0 THEN 1 ELSE 0)) % Half,
      lo |-> lo % Half]

\* a * k for a small k
Mul32(a, k) ==
  LET lo == a.lo * k
  IN [hi |-> (a.hi * k + lo \div Half) % Half, lo |-> lo % Half]

Lt32(a, b) == a.hi < b.hi \/ (a.hi = b.hi /\ a.lo < b.lo)

\* (int)x for a u32 x: two's complement
Int32(a) ==
  IF a.hi < Half \div 2 THEN a.hi * Half + a.lo
  ELSE (a.hi - Half) * Half + a.lo

\* the three counters as one record
Clock == [ticks |-> ticks, time_ms |-> time_ms, time_s |-> time_s]

\* SysTick_Handler()
SysTick_Handler(c) ==
  LET ms == c.time_ms + 1
  IN IF ms = 1000
     THEN [ticks |-> Add32(c.ticks, U32(1)), time_ms |-> 0,
           time_s |-> Add32(c.time_s, U32(1))]
     ELSE [ticks |-> Add32(c.ticks, U32(1)), time_ms |-> ms,
           time_s |-> c.time_s]

\* k calls of SysTick_Handler() in a row, computed at once
SysTickRun(c, k) ==
  LET t == c.time_ms + k
  IN [ticks |-> Add32(c.ticks, U32(k)), time_ms |-> t % 1000,
      time_s |-> Add32(c.time_s, U32(t \div 1000))]

\* time_now(&tv): the structure filled, and the value returned
time_now(c) == [tv |-> [sec |-> c.time_s, ms |-> c.time_ms], res |-> c.ticks]

\* time_since(ref)
time_since(c, ref) == Int32(Sub32(c.ticks, ref))

\* time_diff_ms(ref) once the copy (now_s, now_ms) of the current time is
\* taken; the int sums wrap as the additions of the processor do
time_diff_result(ref, now_s, now_ms) ==
  IF ref.sec = now_s
  THEN Int32(Sub32(U32(now_ms), U32(ref.ms)))
  ELSE IF Lt32(ref.sec, now_s)
  THEN LET r1 == Sub32(U32(1000), U32(ref.ms))
           r2 == Add32(r1, Mul32(Sub32(Sub32(now_s, ref.sec), U32(1)), 1000))
       IN Int32(Add32(r2, U32(now_ms)))
  ELSE LET r1 == Sub32(U32(0), Sub32(U32(1000), U32(now_ms)))
           r2 == Sub32(r1, Mul32(Sub32(Sub32(ref.sec, now_s), U32(1)), 1000))
       IN Int32(Sub32(r2, U32(ref.ms)))

\* time_diff_ms(ref) that no tick interrupts
time_diff_ms(c, ref) == time_diff_result(ref, c.time_s, c.time_ms)

\* a number of milliseconds too large for one integer: seconds and
\* milliseconds
Count(n) == [s |-> n \div 1000, ms |-> n % 1000]
CountAdd(a, k) == [s |-> a.s + (a.ms + k) \div 1000, ms |-> (a.ms + k) % 1000]

ObsInit == [n |-> Count(0), taken |-> FALSE, ref |-> U32(0),
            tv |-> [sec |-> U32(0), ms |-> 0], since |-> Count(0),
            runs |-> 0, single |-> 0]

ReaderIdle ==
  [fn |-> "none", pc |-> 0, now_s |-> U32(0), now_ms |-> 0, held |-> {},
   pre |-> FALSE]

(* ---------------------------------------------------------------------- *)
(* Initial state: after main() has run the init functions                 *)
(* ---------------------------------------------------------------------- *)
CbwZero ==
  [signature |-> 0, tag |-> 0, data_length |-> 0, flags |-> 0, lun |-> 0,
   cb_len |-> 0, op |-> 0, cb1 |-> 0, cb2 |-> 0, lba |-> 0, nblk |-> 0]

NoDef == [release |-> FALSE, rx |-> FALSE, tx_complete |-> FALSE]

Init ==
  /\ fsm_state = MSC_ST_CBW /\ data_more = 0
  /\ rx_flag = 0 /\ tx_flag = 0 /\ err_flag = 0 /\ rst_flag = 0
  /\ cbw = CbwZero /\ csw = CswZero
  /\ data_len = 0 /\ data_offset = 0
  /\ scsi_len = 0 /\ scsi_ctx = 0 /\ request_sense = SenseInit
  /\ scsi_lun = [state |-> 0, writable |-> 0, capacity |-> 0]
  /\ state = USB_ST_POWERED
  /\ chep = [e \in 0..2 |-> [rx |-> USB_EP_DISABLED, tx |-> USB_EP_DISABLED]]
  /\ ep_defs = [e \in 1..USB_EP_COUNT |-> NoDef]
  /\ in_pkt = NoPkt
  /\ ep0_pkt = [len |-> 0, b0 |-> 0]
  /\ hook = << >>
  /\ resp = << >>
  /\ nodes = [cache_addr |-> 0, cache_buffer |-> [i \in 1..SectorBlocks |-> 0]]
  /\ flash = << >>
  /\ lun_io = LunIdle
  /\ dev_addr = 0 /\ daddr = 0
  /\ app_resets = 0
  /\ echo_io = EchoIdle
  /\ lun_hooks = DefaultHooks
  /\ fg_rmw = NoRmw
  /\ rx_copy = NoCopy
  /\ ep_oob = FALSE
  /\ ticks = U32(0) /\ time_ms = 0 /\ time_s = U32(0)
  /\ tm_obs = ObsInit
  /\ tm_rd = ReaderIdle
  /\ txn = TxnIdle(0)
  /\ host = HostOff

(* ---------------------------------------------------------------------- *)
(* Interrupt handler (usb.c USB_Handler and what it calls)                *)
(* ---------------------------------------------------------------------- *)
\* ep_rx(ep): the hardware has set STATRX to NAK at the end of the transfer
ep_rx(d0, ep, p) ==
  LET d1 == [d0 EXCEPT !.chep[ep].rx = USB_EP_NAK]
      r  == IF d1.ep_defs[ep].rx THEN usb_ep_rx(d1, p)
            ELSE [res |-> 1, d |-> d1]
      w  == Xor2(r.d.chep[ep].rx, IF r.res # 0 THEN 3 ELSE 2)
  IN [r.d EXCEPT !.chep[ep].rx = HwToggle(@, w)]

\* ep_tx(ep): the hardware has set STATTX to NAK; the packet has left the
\* buffer
ep_tx(d0, ep) ==
  LET pkt == d0.in_pkt
      d1  == [d0 EXCEPT !.chep[ep].tx = USB_EP_NAK,
                        !.in_pkt = NoPkt,
                        !.txn.din = IF pkt.kind = "data" THEN @ + pkt.len ELSE @,
                        !.txn.nsent = IF pkt.kind = "csw" THEN CapInc(@) ELSE @]
  IN IF d1.ep_defs[ep].tx_complete THEN usb_ep_tx(d1).d ELSE d1

\* ep0_feature_clear(req) for ENDPOINT_HALT of endpoint ep, direction dir
ep0_feature_clear(d0, ep, dir) ==
  LET inside == (ep - 1) \in 0..(USB_EP_COUNT - 1)
      release == IF inside THEN d0.ep_defs[ep].release ELSE d0.stray.release
      r  == IF release
            THEN IF inside
                 THEN usb_ep_release(d0, IF dir = 1 THEN 128 + ep ELSE ep)
                 ELSE [res |-> d0.stray.res, d |-> d0]
            ELSE [res |-> 0, d |-> d0]
      d1 == [r.d EXCEPT
               !.txn.cleared = IF ep = 0 THEN @
                               ELSE @ \cup {IF dir = 1 THEN "IN" ELSE "OUT"},
               !.ep_oob = @ \/ ~inside]
      d2 == IF r.res = 0 THEN usb_ep_set_state(d1, ep, dir, USB_EP_VALID)
            ELSE IF r.res = 1 THEN usb_ep_set_state(d1, ep, dir, USB_EP_NAK)
            ELSE d1
  IN ep0_send(d2)

\* usb_if_ctrl(req, len, 0) for the Bulk-Only Mass Storage Reset
usb_if_ctrl_reset(d) == [d EXCEPT !.rst_flag = 1]

\* a packet of one byte for endpoint 0
BytePkt(v) == [kind |-> "byte", len |-> 1, b0 |-> v]

\* usb_if_ctrl(req, len, 0) with its result: 1 when the answer has been
\* sent, 0 to have ep0_rx send the zero-length packet
usb_if_ctrl(d, req) ==
  IF req = "get_max_lun"
  THEN LET n     == scsi_lun_count
           value == IF n > 0 THEN n - 1 ELSE n
       IN [res |-> 0, d |-> usb_send(d, 0, BytePkt(value))]
  ELSE IF req = "class_reset"
  THEN [res |-> 1, d |-> usb_if_ctrl_reset(d)]
  ELSE [res |-> 0, d |-> d]

\* ep0_stall(): STATTX of EP0 set to STALL
ep0_stall(d) ==
  [d EXCEPT !.chep[0].tx = HwToggle(@, Xor2(@, USB_EP_STALL)),
            !.ep0_pkt.len = 0]

\* ep0_rx(): class or vendor request for interface 0
ep0_class_request(d, req) ==
  LET r == usb_if_ctrl(d, req)
  IN IF r.res = 0 THEN ep0_send(r.d)
     ELSE IF r.res = 1 THEN r.d
     ELSE ep0_stall(r.d)

\* app_reset(): the hook of the application (default_reset when there is
\* none)
app_reset(d) == [d EXCEPT !.app_resets = @ + 1]

\* RST_DCON branch of USB_Handler; the bus reset has cleared the endpoint
\* registers
usb_handler_reset(d0) ==
  LET d1 == [d0 EXCEPT !.chep = [e \in 0..2 |->
                          [rx |-> USB_EP_DISABLED, tx |-> USB_EP_DISABLED]],
                       !.in_pkt = NoPkt,
                       !.state = USB_ST_DEFAULT,
                       !.daddr = 0,
                       !.txn = TxnIdle(d0.txn.rxlen)]
  IN app_reset(usb_if_reset(ep0_config(d1)))

\* the address the host of the mass-storage specifications assigns
HostAddress == 5

\* ep0_set_address(req)
ep0_set_address(d, wValue) ==
  ep0_send([d EXCEPT !.dev_addr = wValue % 128, !.state = USB_ST_ADDRESS])

\* ep0_set_configuration(req)
ep0_set_configuration(d) == ep0_send(usb_if_enable(d))

\* CTR on endpoint 0, direction IN: end of the status (or data) stage
ep0_tx(d0) ==
  LET d1 == [d0 EXCEPT !.chep[0].tx = USB_EP_NAK]
  IN IF d1.state = USB_ST_ADDRESS
     THEN [d1 EXCEPT !.state = USB_ST_CONFIGURED,
                     !.daddr = d1.dev_addr,
                     !.chep[0].rx = HwToggle(@, Xor2(@, 3))]
     ELSE d1

\* ep0_rx() for a SETUP packet without data stage, followed by the re-arm of
\* the OUT direction of endpoint 0 at rx_end
ep0_rx(d0, req) ==
  LET d1 == [d0 EXCEPT !.chep[0].rx = USB_EP_NAK]
      d2 == CASE req = "clear_in"  -> ep0_feature_clear(d1, EP_IN, 1)
              [] req = "clear_out" -> ep0_feature_clear(d1, EP_OUT, 0)
              [] req = "set_address" -> ep0_set_address(d1, HostAddress)
              [] req = "set_configuration" -> ep0_set_configuration(d1)
              [] req = "class_reset" -> ep0_class_request(d1, req)
              [] req = "get_max_lun" -> ep0_class_request(d1, req)
              [] OTHER -> d1
  IN [d2 EXCEPT !.chep[0].rx = HwToggle(@, Xor2(@, 3))]

(* ---------------------------------------------------------------------- *)
(* usb.c: decoding of the SETUP packets                                   *)
(* ---------------------------------------------------------------------- *)
USB_IF_COUNT  == 1
USB_STR_COUNT == 3

\* usb_desc.h: bLength and bDescriptorType of the descriptors; the size of
\* the configuration descriptor; bLength of the strings 0..2
desc_device        == << 18, 1 >>
desc_dev_qualifier == << 10, 6 >>
desc_cfg           == [size |-> 32, b0 |-> 9]
usbdev_strings     == << 4, 16, 26 >>

\* ep0_send(data, len): the packet copied to packet memory, STATTX of EP0
\* ^= 3 on the value read back
ep0_send_data(d, len, b0) ==
  [d EXCEPT !.chep[0].tx = HwToggle(@, Xor2(@, USB_EP_VALID)),
            !.ep0_pkt = [len |-> len, b0 |-> IF len > 0 THEN b0 ELSE @.b0]]

\* ep0_get_status(req)
ep0_get_status(d, req) ==
  LET rcpt == req.bmRequestType % 32
  IN IF rcpt = 0 THEN ep0_send_data(d, 2, 0)
     ELSE IF rcpt = 1
     THEN IF req.wIndex >= USB_IF_COUNT THEN ep0_stall(d)
          ELSE ep0_send_data(d, 2, 0)
     ELSE IF rcpt = 2
     THEN IF req.wIndex >= USB_EP_COUNT THEN ep0_stall(d)
          ELSE ep0_send_data(d, 2, 0)
     ELSE ep0_stall(d)

\* ep0_get_descriptor(req)
ep0_get_descriptor(d, req) ==
  LET type  == (req.wValue \div 256) % 256
      index == req.wValue % 256
  IN IF type = 1 THEN ep0_send_data(d, desc_device[1], desc_device[1])
     ELSE IF type = 2
     THEN LET len == IF desc_cfg.size > req.wLength THEN req.wLength
                     ELSE desc_cfg.size
          IN ep0_send_data(d, len, desc_cfg.b0)
     ELSE IF type = 6
     THEN ep0_send_data(d, desc_dev_qualifier[1], desc_dev_qualifier[1])
     ELSE IF type = 3
     THEN IF index < USB_STR_COUNT
          THEN ep0_send_data(d, usbdev_strings[index + 1],
                             usbdev_strings[index + 1])
          ELSE ep0_stall(d)
     ELSE ep0_stall(d)

\* ep0_get_configuration(), ep0_get_interface()
ep0_get_configuration(d) == ep0_send_data(d, 1, 1)
ep0_get_interface(d)     == ep0_send_data(d, 1, 0)

\* ep0_feature_clear(req); the endpoints of the requests are those of the
\* interface (1 and 2) or above 7
ep0_feature_clear_req(d, req) ==
  LET rcpt == req.bmRequestType % 32
      ep   == req.wIndex % 128
      dir  == IF (req.wIndex \div 128) % 2 = 1 THEN 1 ELSE 0
  IN IF rcpt = 0 /\ req.wValue = 1 THEN ep0_send(d)
     ELSE IF rcpt = 0 /\ req.wValue = 2 THEN ep0_send(d)
     ELSE IF rcpt = 2 /\ req.wValue = 0
     THEN IF ep <= 7 THEN ep0_feature_clear(d, ep, dir) ELSE ep0_send(d)
     ELSE ep0_stall(d)

\* ep0_feature_set(req)
ep0_feature_set(d, req) ==
  LET rcpt == req.bmRequestType % 32
  IN IF rcpt = 0 /\ req.wValue = 1 THEN ep0_send(d)
     ELSE IF rcpt = 0 /\ req.wValue = 2 THEN ep0_send(d)
     ELSE IF rcpt = 2 /\ req.wValue = 0 THEN ep0_send(d)
     ELSE ep0_stall(d)

\* ep0_set_descriptor that accepts the request
ep0_set_descriptor_accept(d) == ep0_send(d)

\* ep0_set_descriptor(), ep0_set_interface(req)
ep0_set_descriptor(d) == ep0_stall(d)
ep0_set_interface(d)  == ep0_send(d)

\* if_drv[0].ctrl_req(req, len, 0): usb_if_ctrl of usb_msc.c
ctrl_req(d, req) ==
  IF req.bmRequestType = 161 /\ req.bRequest = 254
  THEN usb_if_ctrl(d, "get_max_lun")
  ELSE IF req.bmRequestType = 33 /\ req.bRequest = 255
  THEN usb_if_ctrl(d, "class_reset")
  ELSE usb_if_ctrl(d, "other")

\* ep0_rx() for a SETUP packet of eight bytes: the hardware has set STATRX
\* to NAK; the request is decoded and answered; STATRX is set to VALID again
\* at rx_end.  Interface 0 is registered with a ctrl_req callback.
ep0_rx_setup(d0, req) ==
  LET d1   == [d0 EXCEPT !.chep[0].rx = USB_EP_NAK]
      type == req.bmRequestType \div 32
      b    == req.bRequest
      d2   == IF type = 4
              THEN CASE b = 0  -> ep0_get_status(d1, req)
                     [] b = 6  -> ep0_get_descriptor(d1, req)
                     [] b = 8  -> ep0_get_configuration(d1)
                     [] b = 10 -> ep0_get_interface(d1)
                     [] OTHER  -> ep0_stall(d1)
              ELSE IF type = 0
              THEN CASE b = 1  -> ep0_feature_clear_req(d1, req)
                     [] b = 3  -> ep0_feature_set(d1, req)
                     [] b = 5  -> ep0_set_address(d1, req.wValue)
                     [] b = 7  -> ep0_set_descriptor(d1)
                     [] b = 9  -> ep0_set_configuration(d1)
                     [] b = 11 -> ep0_set_interface(d1)
                     [] OTHER  -> ep0_stall(d1)
              ELSE IF req.bmRequestType % 32 = 1
              THEN IF req.wIndex < USB_IF_COUNT
                   THEN LET r == ctrl_req(d1, req)
                        IN IF r.res = 0 THEN ep0_send(r.d)
                           ELSE IF r.res = 1 THEN r.d
                           ELSE ep0_stall(r.d)
                   ELSE ep0_stall(d1)
              ELSE ep0_stall(d1)
  IN [d2 EXCEPT !.chep[0].rx = HwToggle(@, Xor2(@, 3))]

(* ---------------------------------------------------------------------- *)
(* Actions                                                                *)
(* ---------------------------------------------------------------------- *)
\* main loop: usb_periodic()
Periodic ==
  LET d == _periodic([Dev EXCEPT !.hook = << >>])
  IN /\ Commit([d EXCEPT !.txn.path =
                  IF d.txn.phase = "open" THEN @ \cup {d.fsm_state} ELSE @])
     /\ UNCHANGED host

\* main loop: the medium is marked inserted after ten seconds
MediumInserted ==
  /\ scsi_lun.state = 0
  /\ scsi_lun' = [state |-> 1, writable |-> 1, capacity |-> DefaultCapacity]
  /\ UNCHANGED << fsm_state, data_more, rx_flag, tx_flag, err_flag, rst_flag,
                  cbw, csw, data_len, data_offset, scsi_len, scsi_ctx,
                  request_sense, state, chep, ep_defs, in_pkt, ep0_pkt,
                  hook, resp, nodes, flash, lun_io, dev_addr, daddr,
                  app_resets, echo_io, lun_hooks, fg_rmw, rx_copy, ep_oob, txn,
                  host, timevars >>

\* bus reset signalled by the host (or the cable plugged)
BusReset ==
  /\ host.nbus < MaxBusReset
  /\ Commit(usb_handler_reset(Dev))
  /\ host' = [HostOff EXCEPT !.enum = "default", !.ncbw = host.ncbw,
                             !.nrst = host.nrst, !.nbus = host.nbus + 1]

\* The host leaves the device its reset recovery time (10 ms) before it
\* sends the first request: the main loop has run in between.
SetAddress ==
  /\ host.enum = "default" /\ host.ctrl = "idle"
  /\ rst_flag = 0
  /\ chep[0].rx = USB_EP_VALID
  /\ Commit(ep0_rx(Dev, "set_address"))
  /\ host' = [host EXCEPT !.enum = "addressed", !.ctrl = "status"]

SetConfiguration ==
  /\ host.enum = "addressed" /\ host.ctrl = "idle"
  /\ chep[0].rx = USB_EP_VALID
  /\ Commit(ep0_rx(Dev, "set_configuration"))
  /\ host' = [host EXCEPT !.enum = "configured", !.ctrl = "status"]

\* the host collects the zero-length status packet of a control transfer
Ep0StatusIn ==
  /\ host.ctrl = "status"
  /\ chep[0].tx = USB_EP_VALID
  /\ Commit(ep0_tx(Dev))
  /\ host' = [host EXCEPT !.ctrl = "idle"]

\* Bulk-Only Mass Storage Reset, first step of reset recovery; the
\* transaction in progress, if any, is abandoned
ClassReset ==
  /\ Configured /\ host.ctrl = "idle" /\ host.rr = "none"
  /\ chep[0].rx = USB_EP_VALID
  /\ host.nrst < MaxClassReset
  /\ Commit([ep0_rx(Dev, "class_reset") EXCEPT !.txn = TxnIdle(txn.rxlen)])
  /\ host' = [host EXCEPT !.ctrl = "status", !.rr = "in", !.busy = FALSE,
                          !.dtl = 0, !.dirin = FALSE, !.sent = 0,
                          !.nrst = @ + 1]

\* CLEAR_FEATURE(ENDPOINT_HALT) on the bulk IN endpoint: second step of
\* reset recovery, or answer to a STALL seen while reading
ClearHaltIn ==
  /\ Configured /\ host.ctrl = "idle"
  /\ chep[0].rx = USB_EP_VALID
  /\ \/ host.rr = "in"
     \/ host.rr = "none" /\ host.busy /\ chep[EP_IN].tx = USB_EP_STALL
  /\ Commit(ep0_rx(Dev, "clear_in"))
  /\ host' = [host EXCEPT !.ctrl = "status",
                          !.rr = IF @ = "in" THEN "out" ELSE @]

\* CLEAR_FEATURE(ENDPOINT_HALT) on the bulk OUT endpoint: last step of reset
\* recovery, or answer to a STALL seen while writing
ClearHaltOut ==
  /\ Configured /\ host.ctrl = "idle"
  /\ chep[0].rx = USB_EP_VALID
  /\ \/ host.rr = "out"
     \/ /\ host.rr = "none" /\ host.busy /\ ~host.dirin
        /\ host.sent < host.dtl /\ chep[EP_OUT].rx = USB_EP_STALL
  /\ Commit(ep0_rx(Dev, "clear_out"))
  /\ host' = [host EXCEPT !.ctrl = "status",
                          !.rr = IF @ = "out" THEN "none" ELSE @]

\* the host starts a transaction: one packet on bulk OUT
HostSendCbw ==
  /\ Configured /\ ~host.busy /\ host.rr = "none" /\ host.ctrl = "idle"
  /\ host.ncbw < MaxCbw
  /\ chep[EP_OUT].rx = USB_EP_VALID
  /\ \E p \in HostCbws(host.ncbw + 1) :
       /\ Commit(ep_rx(Dev, EP_OUT, p))
       /\ host' = [host EXCEPT !.busy = TRUE, !.dtl = p.data_length,
                               !.dirin = DirIn(p.flags), !.sent = 0,
                               !.ncbw = @ + 1]

\* data-out stage: next packet of at most 64 bytes
HostSendData ==
  /\ Configured /\ host.busy /\ ~host.dirin /\ host.sent < host.dtl
  /\ chep[EP_OUT].rx = USB_EP_VALID
  /\ LET n == Min(MaxPacket, host.dtl - host.sent)
     IN /\ Commit(ep_rx(Dev, EP_OUT, OutData(n)))
        /\ host' = [host EXCEPT !.sent = @ + n]

\* the host reads the packet queued on bulk IN (data or CSW)
HostIn ==
  /\ Configured /\ host.busy
  /\ chep[EP_IN].tx = USB_EP_VALID
  /\ Commit(ep_tx(Dev, EP_IN))
  /\ host' = IF in_pkt.kind = "csw"
             THEN [host EXCEPT !.busy = FALSE, !.dtl = 0, !.dirin = FALSE,
                               !.sent = 0]
             ELSE host

Next ==
  \/ Periodic
  \/ MediumInserted
  \/ BusReset
  \/ SetAddress
  \/ SetConfiguration
  \/ Ep0StatusIn
  \/ ClassReset
  \/ ClearHaltIn
  \/ ClearHaltOut
  \/ HostSendCbw
  \/ HostSendData
  \/ HostIn

Spec == Init /\ [][Next]_vars

(* ---------------------------------------------------------------------- *)
(* A host that splits the data-out stage into packets of any length       *)
(* ---------------------------------------------------------------------- *)
\* lengths of the packets of a data-out stage: a zero-length packet, an odd
\* length, a multiple of 4 below the maximum, the maximum packet size
PacketLens == {0, 31, 60, MaxPacket}

\* first bus reset, at attachment
Attach == host.enum = "off" /\ BusReset

\* the one command of the run
HostSendFirstCbw == host.ncbw = 0 /\ HostSendCbw

\* data-out stage: a packet of any length, within the declared length
HostSendPacket ==
  /\ Configured /\ host.busy /\ ~host.dirin /\ host.sent < host.dtl
  /\ chep[EP_OUT].rx = USB_EP_VALID
  /\ \E n \in PacketLens :
       /\ n <= host.dtl - host.sent
       /\ Commit(ep_rx(Dev, EP_OUT, OutData(n)))
       /\ host' = [host EXCEPT !.sent = @ + n]

NextPackets ==
  \/ Periodic
  \/ MediumInserted
  \/ Attach
  \/ SetAddress
  \/ SetConfiguration
  \/ Ep0StatusIn
  \/ ClearHaltIn
  \/ ClearHaltOut
  \/ HostSendFirstCbw
  \/ HostSendPacket
  \/ HostIn

SpecPackets == Init /\ [][NextPackets]_vars

(* ---------------------------------------------------------------------- *)
(* A host that sends CLEAR_FEATURE(ENDPOINT_HALT) at any moment           *)
(* ---------------------------------------------------------------------- *)
ClearAnyIn ==
  /\ Configured /\ host.ctrl = "idle"
  /\ chep[0].rx = USB_EP_VALID
  /\ Commit(ep0_rx(Dev, "clear_in"))
  /\ host' = [host EXCEPT !.ctrl = "status"]

ClearAnyOut ==
  /\ Configured /\ host.ctrl = "idle"
  /\ chep[0].rx = USB_EP_VALID
  /\ Commit(ep0_rx(Dev, "clear_out"))
  /\ host' = [host EXCEPT !.ctrl = "status"]

NextClear ==
  \/ Periodic
  \/ MediumInserted
  \/ Attach
  \/ SetAddress
  \/ SetConfiguration
  \/ Ep0StatusIn
  \/ ClearAnyIn
  \/ ClearAnyOut
  \/ HostSendFirstCbw
  \/ HostSendData
  \/ HostIn

SpecClear == Init /\ [][NextClear]_vars

(* ---------------------------------------------------------------------- *)
(* A host that sends well-formed commands, implemented or not             *)
(* ---------------------------------------------------------------------- *)
\* opcodes that are not implemented: FORMAT UNIT (group 0), VERIFY(10)
\* (group 1), MODE SELECT(10) (group 2), 0x7F (group 3), READ(16) (group 4),
\* READ(12) (group 5), 0xC0 and 0xE0 (vendor groups 6 and 7)
UnimplOps == {4, 47, 85, 127, 136, 168, 192, 224}

\* length of the CDB of an opcode, by its group
CdbLen(op) ==
  LET group == (op \div 32) % 8
  IN CASE group = 0 -> 6
       [] group \in {1, 2} -> 10
       [] group = 5 -> 12
       [] group \in {3, 4} -> 16
       [] OTHER -> 10

ScsiCbws(t) ==
  { Pkt(CbwLen, CBW_SIGNATURE, t, n, 128, 0, CdbLen(op), op, 0, 0, 0, 0) :
      n \in {0, 8}, op \in UnimplOps }
  \cup
  { Pkt(CbwLen, CBW_SIGNATURE, t, 18, 128, 0, 6, SCSI_CMD6_REQUEST_SENSE, 0, 0, 0, 0),
    Pkt(CbwLen, CBW_SIGNATURE, t, 0, 128, 0, 6, SCSI_CMD6_REQUEST_SENSE, 0, 0, 0, 0),
    Pkt(CbwLen, CBW_SIGNATURE, t, 0, 0, 0, 6, SCSI_CMD6_TEST_READY, 0, 0, 0, 0),
    Pkt(CbwLen, CBW_SIGNATURE, t, 8, 128, 0, 10, SCSI_CMD10_READ_CAPACITY, 0, 0, 0, 0) }

HostSendScsi ==
  /\ Configured /\ ~host.busy /\ host.rr = "none" /\ host.ctrl = "idle"
  /\ host.ncbw < MaxScsiCbw
  /\ chep[EP_OUT].rx = USB_EP_VALID
  /\ \E p \in ScsiCbws(host.ncbw + 1) :
       /\ Commit(ep_rx(Dev, EP_OUT, p))
       /\ host' = [host EXCEPT !.busy = TRUE, !.dtl = p.data_length,
                               !.dirin = DirIn(p.flags), !.sent = 0,
                               !.ncbw = @ + 1, !.ops = Append(@, p.op)]

NextSense ==
  \/ Periodic
  \/ MediumInserted
  \/ Attach
  \/ SetAddress
  \/ SetConfiguration
  \/ Ep0StatusIn
  \/ ClearHaltIn
  \/ HostSendScsi
  \/ HostIn

SpecSense == Init /\ [][NextSense]_vars

(* ---------------------------------------------------------------------- *)
(* The logical unit on its flash: WRITE(10) then READ(10) of a range      *)
(* ---------------------------------------------------------------------- *)
\* content of the k-th block (from 0) of a transfer of n blocks
BlockData(pat, k, n) ==
  CASE pat = "zero"  -> 0
    [] pat = "count" -> k % 3
    [] OTHER         -> IF k = 0 THEN 1 ELSE IF k = n - 1 THEN 2 ELSE Erased

\* the ranges the host writes: inside a sector, across two and three
\* sectors, across the end of the 16 MiB the address bytes reach; the first
\* command of a run may be a long transfer of MemLongCount blocks
MemCmds(first) ==
  { [lba |-> a, n |-> c, pat |-> p] :
      a \in MemLbas, c \in MemCounts, p \in {"zero", "count", "ends"} }
  \cup
  (IF first THEN {[lba |-> 0, n |-> MemLongCount, pat |-> "ends"]} ELSE {})

CdbOf(op, c) ==
  [signature |-> CBW_SIGNATURE, tag |-> 0, data_length |-> 0, flags |-> 0,
   lun |-> 0, cb_len |-> 10, op |-> op, cb1 |-> 0, cb2 |-> 0,
   lba |-> c.lba, nblk |-> c.n]

\* the host sends WRITE(10, lba, n)
HostWrite ==
  /\ lun_io.op = "idle" /\ lun_io.cnt < MaxMemCmd
  /\ scsi_lun.state = 1
  /\ \E c \in MemCmds(lun_io.cnt = 0) :
       Commit([Dev EXCEPT
                 !.cbw = CdbOf(SCSI_CMD10_WRITE, c),
                 !.lun_io = [lun_io EXCEPT
                               !.op = "write", !.lba = c.lba, !.n = c.n,
                               !.pat = c.pat, !.k = 0, !.last = 0,
                               !.cnt = @ + 1]])
  /\ UNCHANGED host

\* one call of scsi_command for the WRITE(10): the first before any data,
\* then one for each block received in scsi_data; scsi_complete() at the
\* end of the transaction
ScsiWriteStep ==
  /\ lun_io.op = "write"
  /\ LET r    == scsi_command(Dev)
         data == BlockData(lun_io.pat, scsi_ctx - 1, lun_io.n)
         d1   == RunHooks(r.d, r.d.hook, data)
     IN Commit(IF r.res = 3 THEN d1
               ELSE scsi_complete([d1 EXCEPT !.lun_io.op = "written"]))
  /\ UNCHANGED host

\* the host sends READ(10, lba, n) for the range just written
HostRead ==
  /\ lun_io.op = "written"
  /\ Commit([Dev EXCEPT
               !.cbw = CdbOf(SCSI_CMD10_READ, [lba |-> lun_io.lba, n |-> lun_io.n]),
               !.lun_io.op = "read", !.lun_io.k = 0])
  /\ UNCHANGED host

\* one call of scsi_command for the READ(10): one block is read
ScsiReadStep ==
  /\ lun_io.op = "read"
  /\ LET r  == scsi_command(Dev)
         v  == default_lun_rd(r.d, r.d.hook[1].addr)
         d1 == [r.d EXCEPT !.lun_io.k = @ + 1, !.lun_io.last = v]
     IN Commit(IF r.res = 2 THEN d1
               ELSE scsi_complete([d1 EXCEPT !.lun_io.op = "idle"]))
  /\ UNCHANGED host

NextMem ==
  \/ MediumInserted
  \/ HostWrite
  \/ ScsiWriteStep
  \/ HostRead
  \/ ScsiReadStep

SpecMem == Init /\ [][NextMem]_vars

(* ---------------------------------------------------------------------- *)
(* An application that calls the functions of mem.c on node 0             *)
(* ---------------------------------------------------------------------- *)
MemAddrs == {0, 512, 4096, 16777216}

\* mem_read(0, addr, 512, 0)
MemRead ==
  /\ lun_io.cnt < MaxMemCalls
  /\ \E a \in MemAddrs :
       Commit([mem_read_cache(Dev, a) EXCEPT
                 !.lun_io.op = "mem_read", !.lun_io.cnt = @ + 1])
  /\ UNCHANGED host

\* mem_write(0, 0, 0, 0)
MemWrite ==
  /\ lun_io.cnt < MaxMemCalls
  /\ Commit([mem_write_cache(Dev) EXCEPT
               !.lun_io.op = "mem_write", !.lun_io.cnt = @ + 1])
  /\ UNCHANGED host

\* mem_erase(0, addr, 4096)
MemErase ==
  /\ lun_io.cnt < MaxMemCalls
  /\ \E a \in MemAddrs :
       Commit([mem_erase(Dev, a) EXCEPT
                 !.lun_io.op = "mem_erase", !.lun_io.cnt = @ + 1])
  /\ UNCHANGED host

\* mem_write(0, addr, 512, buffer)
MemWriteBuf ==
  /\ lun_io.cnt < MaxMemCalls
  /\ \E a \in MemAddrs, v \in {0, 1} :
       Commit([mem_write_buf(Dev, a, v) EXCEPT
                 !.lun_io.op = "mem_write_buf", !.lun_io.cnt = @ + 1])
  /\ UNCHANGED host

\* a block is copied into the cache obtained with mem_get_node(0)
MemCopy ==
  /\ lun_io.cnt < MaxMemCalls
  /\ \E a \in {0, 512}, v \in {0, 1, 2} :
       Commit([cache_copy(Dev, nodes.cache_addr + a, v) EXCEPT
                 !.lun_io.op = "copy", !.lun_io.cnt = @ + 1])
  /\ UNCHANGED host

NextMemApi ==
  \/ MemRead
  \/ MemWrite
  \/ MemErase
  \/ MemWriteBuf
  \/ MemCopy

SpecMemApi == Init /\ [][NextMemApi]_vars

(* ---------------------------------------------------------------------- *)
(* A host that asks for the number of logical units                       *)
(* ---------------------------------------------------------------------- *)
\* Get Max LUN (bmRequestType 0xA1, bRequest 0xFE, wIndex 0, wLength 1).
\* The host sends its IN tokens as soon as the SETUP packet is acknowledged:
\* one of them may be served while the handler is still running.
GetMaxLun ==
  /\ Configured /\ host.ctrl = "idle"
  /\ chep[0].rx = USB_EP_VALID
  /\ \E served \in BOOLEAN :
       LET d == ep0_rx([Dev EXCEPT !.hw_in = served], "get_max_lun")
       IN /\ Commit(d)
          /\ host' = [host EXCEPT
                        !.ctrl = IF served THEN "status_out" ELSE "data",
                        !.got  = d.ep0_got]

\* the host collects the packet of the data stage
Ep0DataIn ==
  /\ host.ctrl = "data"
  /\ chep[0].tx = USB_EP_VALID
  /\ Commit(ep0_tx(Dev))
  /\ host' = [host EXCEPT !.ctrl = "status_out", !.got = ep0_pkt]

\* the host closes the control read with a zero-length OUT packet
Ep0StatusOut ==
  /\ host.ctrl = "status_out"
  /\ chep[0].rx = USB_EP_VALID
  /\ Commit(ep0_rx(Dev, "status_out"))
  /\ host' = [host EXCEPT !.ctrl = "idle"]

NextLun ==
  \/ Periodic
  \/ MediumInserted
  \/ Attach
  \/ SetAddress
  \/ SetConfiguration
  \/ Ep0StatusIn
  \/ GetMaxLun
  \/ Ep0DataIn
  \/ Ep0StatusOut
  \/ HostSendFirstCbw
  \/ HostSendData
  \/ HostIn

SpecLun == Init /\ [][NextLun]_vars

(* ---------------------------------------------------------------------- *)
(* A host that assigns the address and may give up a control transfer     *)
(* ---------------------------------------------------------------------- *)
\* wValue of the SET_ADDRESS requests
Addresses == {1, 2, 130}

\* SET_ADDRESS(a)
SetAddressTo ==
  /\ host.enum # "off" /\ host.ctrl = "idle"
  /\ rst_flag = 0
  /\ chep[0].rx = USB_EP_VALID
  /\ \E a \in Addresses : Commit(ep0_rx_setup(Dev, Req(0, 5, a, 0, 0)))
  /\ host' = [host EXCEPT !.ctrl = "status_addr"]

\* the host collects the zero-length status packet of SET_ADDRESS
AddressStatusIn ==
  /\ host.ctrl = "status_addr"
  /\ chep[0].tx = USB_EP_VALID
  /\ Commit(ep0_tx(Dev))
  /\ host' = [host EXCEPT !.ctrl = "idle", !.enum = "addressed"]

\* the host gives up the control transfer in progress (three transactions
\* in error, or the timeout of its driver); the device is not told
HostTimeout ==
  /\ host.ctrl # "idle"
  /\ host' = [host EXCEPT !.ctrl = "idle"]
  /\ UNCHANGED << fsm_state, data_more, rx_flag, tx_flag, err_flag, rst_flag,
                  cbw, csw, data_len, data_offset, scsi_len, scsi_ctx,
                  request_sense, scsi_lun, state, chep, ep_defs, in_pkt,
                  ep0_pkt, hook, resp, nodes, flash, lun_io, dev_addr, daddr,
                  app_resets, echo_io, lun_hooks, fg_rmw, rx_copy, ep_oob, txn,
                  timevars >>

\* GET_DESCRIPTOR(device), wLength 18
GetDeviceDescriptor ==
  /\ host.enum # "off" /\ host.ctrl = "idle"
  /\ rst_flag = 0
  /\ chep[0].rx = USB_EP_VALID
  /\ Commit(ep0_rx_setup(Dev, Req(128, 6, 256, 0, 18)))
  /\ host' = [host EXCEPT !.ctrl = "data"]

NextAddr ==
  \/ Periodic
  \/ MediumInserted
  \/ BusReset
  \/ SetAddressTo
  \/ AddressStatusIn
  \/ HostTimeout
  \/ GetDeviceDescriptor
  \/ Ep0DataIn
  \/ Ep0StatusOut

SpecAddr == Init /\ [][NextAddr]_vars

(* ---------------------------------------------------------------------- *)
(* A host that sends control requests of every kind                       *)
(* ---------------------------------------------------------------------- *)
\* requests the device serves
CtrlSupported ==
  { Req(128, 0, 0, 0, 2), Req(129, 0, 0, 0, 2), Req(130, 0, 0, 1, 2),
    Req(128, 6, 256, 0, 18), Req(128, 6, 512, 0, 9),
    Req(128, 6, 1536, 0, 10), Req(128, 6, 770, 1033, 255),
    Req(128, 8, 0, 0, 1), Req(129, 10, 0, 0, 1),
    Req(2, 1, 0, 129, 0), Req(0, 1, 1, 0, 0), Req(0, 3, 1, 0, 0),
    Req(0, 5, 1, 0, 0), Req(0, 9, 1, 0, 0), Req(1, 11, 0, 0, 0),
    Req(161, 254, 0, 0, 1), Req(33, 255, 0, 0, 0), Req(33, 1, 0, 0, 0) }

\* requests the device does not support: reserved and unassigned standard
\* bRequest codes in both directions and SYNCH_FRAME; SET_DESCRIPTOR;
\* GET_DESCRIPTOR for the types 0, 4 (interface), 5 (endpoint), 15 (BOS) and
\* for the strings 3 and 255; GET_STATUS for the recipients 3 to 31;
\* CLEAR_FEATURE for an interface and for the features 1 and 2 of an
\* endpoint; class, vendor and reserved-type requests for the device, an
\* endpoint, another recipient or the interfaces 1 and 256
CtrlUnsupported ==
  { Req(t, b, 0, 0, 0) : t \in {0, 128}, b \in {2, 4, 12, 13, 255} }
  \cup { Req(0, 7, 256, 0, 18), Req(0, 7, 768, 1033, 0) }
  \cup { Req(128, 6, ty * 256, 0, 64) : ty \in {0, 4, 5, 15} }
  \cup { Req(128, 6, 768 + ix, 1033, 255) : ix \in {3, 255} }
  \cup { Req(128 + rcpt, 0, 0, 0, 2) : rcpt \in {3, 4, 7, 31} }
  \cup { Req(1, 1, v, 0, 0) : v \in {0, 1} }
  \cup { Req(2, 1, v, 129, 0) : v \in {1, 2} }
  \cup { Req(t, b, 0, 0, 0) : t \in {32, 64, 96, 160, 192, 224, 34, 162, 35},
                              b \in {0, 255} }
  \cup { Req(t, 254, 0, i, 1) : t \in {161, 193}, i \in {1, 256} }
  \cup { Req(33, 255, 0, 1, 0) }

\* The host sends a SETUP packet; it has left the main loop the time to run
\* since the last reset.
HostSetup ==
  /\ host.enum # "off" /\ host.ctrl # "answer"
  /\ rst_flag = 0
  /\ chep[0].rx = USB_EP_VALID
  /\ \E r \in CtrlSupported \cup CtrlUnsupported :
       /\ Commit(ep0_rx_setup(Dev, r))
       /\ host' = [host EXCEPT !.ctrl = "answer", !.req = r,
                               !.got = [len |-> 0, b0 |-> 0]]

\* The host sends an IN token for the data or the status stage: it gets the
\* packet queued, or a STALL handshake that ends the transfer.
HostCtrlIn ==
  /\ host.ctrl = "answer"
  /\ \/ /\ chep[0].tx = USB_EP_VALID
        /\ Commit(ep0_tx(Dev))
        /\ host' = [host EXCEPT !.ctrl = "done", !.got = ep0_pkt]
     \/ /\ chep[0].tx = USB_EP_STALL
        /\ host' = [host EXCEPT !.ctrl = "stalled"]
        /\ UNCHANGED << fsm_state, data_more, rx_flag, tx_flag, err_flag,
                        rst_flag, cbw, csw, data_len, data_offset, scsi_len,
                        scsi_ctx, request_sense, scsi_lun, state, chep,
                        ep_defs, in_pkt, ep0_pkt, hook, resp, nodes, flash,
                        lun_io, dev_addr, daddr, app_resets, echo_io,
                        lun_hooks, fg_rmw, rx_copy, ep_oob, txn,
                        timevars >>

NextCtrl ==
  \/ Periodic
  \/ BusReset
  \/ HostSetup
  \/ HostCtrlIn

SpecCtrl == Init /\ [][NextCtrl]_vars

(* ---------------------------------------------------------------------- *)
(* The tick interrupt and the callers of the time functions               *)
(* ---------------------------------------------------------------------- *)
\* numbers of ticks that pass while nothing reads the time: one
\* millisecond short of a second, and 1001 ms short of 2^31 ms
ShortRun == 999
LongRun  == 2147482647
MaxRuns  == 2
\* ticks taken one by one
MaxSingleTicks == 4

SetClock(c) ==
  /\ ticks' = c.ticks /\ time_ms' = c.time_ms /\ time_s' = c.time_s

\* one tick; it may come between two instructions of a caller, once
SysTick ==
  /\ tm_obs.single < MaxSingleTicks
  /\ tm_rd.fn # "none" => ~tm_rd.pre
  /\ LET c == SysTick_Handler(Clock)
     IN /\ SetClock(c)
        /\ tm_rd' = IF tm_rd.fn = "none" THEN tm_rd
                    ELSE [tm_rd EXCEPT
                            !.pre = TRUE,
                            !.held = @ \cup {[sec |-> c.time_s,
                                              ms |-> c.time_ms]}]
  /\ tm_obs' = [tm_obs EXCEPT
                  !.n = CountAdd(@, 1),
                  !.since = IF tm_obs.taken THEN CountAdd(@, 1) ELSE @,
                  !.single = @ + 1]
  /\ UNCHANGED usbvars

\* many ticks while no time function runs
SysTickMany ==
  /\ tm_rd.fn = "none"
  /\ tm_obs.runs < MaxRuns
  /\ \E k \in {ShortRun, LongRun} :
       /\ SetClock(SysTickRun(Clock, k))
       /\ tm_obs' = [tm_obs EXCEPT
                       !.n = CountAdd(@, k),
                       !.since = IF tm_obs.taken THEN CountAdd(@, k) ELSE @,
                       !.runs = @ + 1]
  /\ UNCHANGED << tm_rd, usbvars >>

\* ref = time_now(&tv), with the tick interrupt held off
TakeRef ==
  /\ tm_rd.fn = "none"
  /\ ~tm_obs.taken \/ tm_obs.since # Count(0)
  /\ tm_obs' = [tm_obs EXCEPT !.taken = TRUE, !.ref = time_now(Clock).res,
                              !.tv = time_now(Clock).tv, !.since = Count(0)]
  /\ UNCHANGED << ticks, time_ms, time_s, tm_rd, usbvars >>

\* a call of time_now(&tv) or of time_diff_ms(&tv) starts
ReaderCall ==
  /\ tm_rd.fn = "none"
  /\ \E fn \in {"time_now", "time_diff_ms"} :
       tm_rd' = [ReaderIdle EXCEPT
                   !.fn = fn, !.pc = 1,
                   !.held = {[sec |-> time_s, ms |-> time_ms]}]
  /\ UNCHANGED << ticks, time_ms, time_s, tm_obs, usbvars >>

\* one read of the caller.  time_now: 1 sec = time_s, 2 ms = time_ms.
\* time_diff_ms: 1 now_s = time_s, 2 now_ms = time_ms, 3 the test
\* now_s != time_s, 4 and 5 the second copy.  9: the copy is complete.
ReaderStep ==
  /\ tm_rd.fn # "none" /\ tm_rd.pc # 9
  /\ LET r == [tm_rd EXCEPT !.pre = FALSE]
     IN tm_rd' =
          CASE tm_rd.pc \in {1, 4} ->
                 [r EXCEPT !.now_s = time_s, !.pc = @ + 1]
            [] tm_rd.pc = 2 ->
                 [r EXCEPT !.now_ms = time_ms,
                           !.pc = IF tm_rd.fn = "time_now" THEN 9 ELSE 3]
            [] tm_rd.pc = 3 ->
                 [r EXCEPT !.pc = IF tm_rd.now_s # time_s THEN 4 ELSE 9]
            [] OTHER ->
                 [r EXCEPT !.now_ms = time_ms, !.pc = 9]
  /\ UNCHANGED << ticks, time_ms, time_s, tm_obs, usbvars >>

\* the call returns
ReaderReturn ==
  /\ tm_rd.pc = 9
  /\ tm_rd' = ReaderIdle
  /\ UNCHANGED << ticks, time_ms, time_s, tm_obs, usbvars >>

NextTime ==
  \/ SysTick
  \/ SysTickMany
  \/ TakeRef
  \/ ReaderCall
  \/ ReaderStep
  \/ ReaderReturn

SpecTime == Init /\ [][NextTime]_vars

(* ---------------------------------------------------------------------- *)
(* A host that reads and writes the echo buffer                           *)
(* ---------------------------------------------------------------------- *)
EchoOffsets == {0, 512, 1000, 1024, 1025, 16777215}
EchoLengths == {0, 1, 24, 100, 512, 1024, 1025}

\* first call of scsi_command for a READ BUFFER or WRITE BUFFER in echo
\* mode: the previous command is complete (scsi_ctx = 0).  The host declares
\* the length of the CDB, or 512 bytes more.
EchoCommand ==
  /\ echo_io.op = 0 \/ echo_io.res <= 0
  /\ \E op \in {SCSI_CMD10_READ_BUFFER, SCSI_CMD10_WRITE_BUFFER},
        off \in EchoOffsets, len \in EchoLengths, more \in {0, 512} :
       LET req == [op |-> op, offset |-> Bytes24(off), length |-> Bytes24(len)]
           d0  == [Dev EXCEPT !.scsi_ctx = 0, !.scsi_len = 0,
                              !.echo_io = [EchoIdle EXCEPT
                                             !.op = op,
                                             !.offset = req.offset,
                                             !.length = req.length,
                                             !.dtl = len + more]]
           r   == cmd10_echo(d0, req)
       IN Commit([r.d EXCEPT !.echo_io.res = r.res, !.echo_io.calls = 1])
  /\ UNCHANGED host

\* next call of scsi_command for the same command: after the data block
\* has been sent (result 2), or once the next part of the data-out stage,
\* at most the room of scsi_data, has been received (result 3)
EchoNext ==
  /\ echo_io.op # 0 /\ echo_io.res > 0
  /\ LET req == [op |-> echo_io.op, offset |-> echo_io.offset,
                 length |-> echo_io.length]
         left == echo_io.dtl - echo_io.rcvd
         n   == IF echo_io.res = 3
                THEN (IF left > ScsiBufSize THEN ScsiBufSize ELSE left)
                ELSE 0
         d0  == IF echo_io.res = 3
                THEN [scsi_set_data(Dev, n).d EXCEPT !.echo_io.rcvd = @ + n]
                ELSE Dev
         r   == cmd10_echo(d0, req)
     IN Commit([r.d EXCEPT !.echo_io.res = r.res, !.echo_io.calls = @ + 1])
  /\ UNCHANGED host

NextEcho ==
  \/ EchoCommand
  \/ EchoNext

SpecEcho == Init /\ [][NextEcho]_vars

(* ---------------------------------------------------------------------- *)
(* A LUN whose hooks fail                                                 *)
(* ---------------------------------------------------------------------- *)
\* The hooks are fields of the lun structure that scsi_lun_get(0) hands
\* out: between two turns of the main loop one of them is replaced, the
\* read hook by a null pointer or a write hook by a function that reports
\* a failure.
HookFault ==
  /\ lun_hooks = DefaultHooks
  /\ \E h \in DOMAIN DefaultHooks :
       Commit([Dev EXCEPT !.lun_hooks[h] = 1 - @])
  /\ UNCHANGED host

NextFault ==
  \/ Periodic
  \/ MediumInserted
  \/ BusReset
  \/ SetAddress
  \/ SetConfiguration
  \/ Ep0StatusIn
  \/ ClearHaltIn
  \/ ClearHaltOut
  \/ HostSendCbw
  \/ HostSendData
  \/ HostIn
  \/ HookFault

SpecFault == Init /\ [][NextFault]_vars

(* ---------------------------------------------------------------------- *)
(* A main loop that keeps running and a host that follows the protocol    *)
(* ---------------------------------------------------------------------- *)
NextLive ==
  \/ Periodic
  \/ MediumInserted
  \/ Attach
  \/ SetAddress
  \/ SetConfiguration
  \/ Ep0StatusIn
  \/ ClearHaltIn
  \/ ClearHaltOut
  \/ HostSendFirstCbw
  \/ HostSendData
  \/ HostIn
  \/ HookFault

\* The main loop calls usb_periodic() for ever.  The host sends the data it
\* has declared as long as the OUT endpoint takes it, reads the IN endpoint,
\* clears every halted endpoint and completes its control transfers; it
\* need not send another command.
SpecLive ==
  /\ Init /\ [][NextLive]_vars
  /\ WF_vars(Periodic)
  /\ WF_vars(HostSendData)
  /\ WF_vars(HostIn)
  /\ WF_vars(ClearHaltIn)
  /\ WF_vars(ClearHaltOut)
  /\ WF_vars(Ep0StatusIn)

(* ---------------------------------------------------------------------- *)
(* Vocabulary of the properties                                           *)
(* ---------------------------------------------------------------------- *)
\* a CSW of the open transaction is queued on bulk IN and will be read
CswOut ==
  /\ txn.phase = "open"
  /\ in_pkt.kind = "csw"
  /\ chep[EP_IN].tx = USB_EP_VALID

\* a data packet is queued on bulk IN and will be read
DataOut == in_pkt.kind = "data" /\ chep[EP_IN].tx = USB_EP_VALID

\* what the host declared in the CBW, what the command does
Hn == txn.dtl = 0
Hi == txn.dtl # 0 /\ txn.dirin
Ho == txn.dtl # 0 /\ ~txn.dirin
Dn == txn.res = 0
Di == txn.res \in {1, 2}
Do == txn.res \in {3, 4}

(* ---------------------------------------------------------------------- *)
(* C1                                                                     *)
(* ---------------------------------------------------------------------- *)
\* C1: between the acceptance of a CBW and the return of the state machine
\* to CBW exactly one CSW is queued and its transmission has completed:
\* never a second CSW for the same CBW; while the transaction is open the
\* state machine is not in CBW and the OUT endpoint accepts packets only in
\* the data-out stage; a closed transaction has had its one CSW read.
C1_ExactlyOneCsw ==
  /\ txn.ncsw <= 1
  /\ txn.nsent <= txn.ncsw
  /\ txn.phase = "open" =>
       /\ fsm_state # MSC_ST_CBW
       /\ chep[EP_OUT].rx = USB_EP_VALID => fsm_state = MSC_ST_DATA_OUT
       /\ txn.nsent = 1 => fsm_state = MSC_ST_CSW /\ tx_flag = 1
  /\ txn.phase = "closed" => txn.ncsw = 1 /\ txn.nsent = 1

\* two transactions in a row, without a reset, have been closed
C1_Witness ==
  /\ host.ncbw = 2 /\ host.nrst = 0 /\ host.nbus = 1
  /\ txn.phase = "closed" /\ txn.tag = 2 /\ fsm_state = MSC_ST_CBW

(* ---------------------------------------------------------------------- *)
(* C2                                                                     *)
(* ---------------------------------------------------------------------- *)
\* C2: every CSW queued for transmission carries the signature 0x53425355
\* and the tag of the CBW that opened the transaction, which is the tag of
\* the last command packet the host sent.
C2_CswEchoesTag ==
  CswOut => /\ in_pkt.len = CswLen
            /\ in_pkt.csw.signature = CSW_SIGNATURE
            /\ in_pkt.csw.tag = txn.tag
            /\ in_pkt.csw.tag = host.ncbw

\* the CSW of the second command, sent after a stall in ERROR
C2_Witness ==
  /\ CswOut /\ host.ncbw = 2 /\ MSC_ST_ERROR \in txn.path
  /\ in_pkt.csw.tag = 2

(* ---------------------------------------------------------------------- *)
(* C3                                                                     *)
(* ---------------------------------------------------------------------- *)
\* C3: a packet received in state CBW is dispatched to the SCSI layer only
\* if it is 31 bytes long, carries the signature 0x43425355, a bCBWCBLength
\* in 1..16 and an existing LUN.
C3_OnlyValidCbwDispatched ==
  txn.phase = "open" => txn.valid

(* ---------------------------------------------------------------------- *)
(* C4                                                                     *)
(* ---------------------------------------------------------------------- *)
\* a Bulk-Only reset has been processed and no CBW accepted since
ResetDone == host.nrst > 0 /\ rst_flag = 0 /\ txn.phase = "idle"

\* C4: once a Bulk-Only reset has been processed the state machine is in
\* CBW with every counter cleared, the OUT endpoint is armed when recovery
\* is over, and the next CBW is dispatched from iteration 0 like the first
\* CBW after initialisation.
C4_ResetRestoresInit ==
  /\ ResetDone =>
       /\ fsm_state = MSC_ST_CBW
       /\ data_more = 0 /\ data_offset = 0
       /\ tx_flag = 0 /\ err_flag = 0
       /\ (host.rr = "none" /\ rx_flag = 0 /\ Configured)
             => chep[EP_OUT].rx = USB_EP_VALID
       /\ scsi_ctx = 0
  /\ txn.phase = "open" => txn.ctx0 = 0

(* ---------------------------------------------------------------------- *)
(* C5                                                                     *)
(* ---------------------------------------------------------------------- *)
Case1  == Hn /\ Dn
Case6  == Hi /\ Di /\ txn.dtl = txn.dlen
Case12 == Ho /\ Do /\ txn.dtl = txn.dlen

\* C5: when host and device agree (cases 1, 6, 12) the CSW reports status 0
\* and residue 0, no endpoint has been stalled, and exactly the agreed
\* number of bytes has moved in the declared direction (for case 12 all of
\* them handed to the command).
C5_AgreedTransfer ==
  (CswOut /\ (Case1 \/ Case6 \/ Case12)) =>
     /\ in_pkt.csw.status = 0
     /\ in_pkt.csw.residue = 0
     /\ txn.stall = {}
     /\ txn.din  = IF Case6 THEN txn.dtl ELSE 0
     /\ txn.dout = IF Case12 THEN txn.dtl ELSE 0
     /\ txn.wr   = IF Case12 THEN txn.dtl ELSE 0

\* the CSW of a two-block WRITE(10) with 1024 bytes declared and received
C5_Witness ==
  /\ CswOut /\ Case12 /\ txn.dtl = 1024 /\ txn.dout = 1024
  /\ in_pkt.csw.status = 0

(* ---------------------------------------------------------------------- *)
(* C6                                                                     *)
(* ---------------------------------------------------------------------- *)
\* C6: when the command needs no data but the host declared some (cases 4
\* and 9) the CSW reports status 0; in the IN case no data has been sent,
\* the IN endpoint has been stalled and cleared and the residue is the
\* declared length.
C6_NoDataCommand ==
  (CswOut /\ Dn /\ ~Hn) =>
     /\ in_pkt.csw.status = 0
     /\ txn.din = 0 /\ txn.dout = 0
     /\ Hi => /\ "IN" \in txn.stall /\ "IN" \in txn.cleared
              /\ in_pkt.csw.residue = txn.dtl

(* ---------------------------------------------------------------------- *)
(* C7                                                                     *)
(* ---------------------------------------------------------------------- *)
Case5 == Hi /\ Di /\ ULt(txn.dlen, txn.dtl)

\* C7: when the host expects more than the command returns (case 5) the
\* device has sent the Di bytes and stalled the IN endpoint before the CSW,
\* which reports status 0 and residue Hi - Di.
C7_ShortDataIn ==
  (CswOut /\ Case5) =>
     /\ txn.din = txn.dlen
     /\ "IN" \in txn.stall
     /\ in_pkt.csw.status = 0
     /\ in_pkt.csw.residue = txn.dtl - txn.dlen

(* ---------------------------------------------------------------------- *)
(* C8                                                                     *)
(* ---------------------------------------------------------------------- *)
Case11 == Ho /\ Do /\ ULt(txn.dlen, txn.dtl)

Case7  == Hi /\ Di /\ ULt(txn.dtl, txn.dlen)
Case13 == Ho /\ Do /\ ULt(txn.dtl, txn.dlen)

\* C9: when the host declared less than the command moves (cases 7 and 13)
\* exactly the declared number of bytes is transferred and the CSW reports
\* status 2.
C9_HostWantsLess ==
  (CswOut /\ (Case7 \/ Case13)) =>
     /\ txn.din  = IF Case7 THEN txn.dtl ELSE 0
     /\ txn.dout = IF Case13 THEN txn.dtl ELSE 0
     /\ in_pkt.csw.status = 2

(* ---------------------------------------------------------------------- *)
(* C10                                                                    *)
(* ---------------------------------------------------------------------- *)
Case8  == Hi /\ Do
Case10 == Ho /\ Di

\* the part of C10 on data and endpoints: no data moves, the endpoint of
\* the declared direction is stalled until the host clears it, status is 2
C10_Stalled ==
  /\ (txn.phase = "open" /\ (Case8 \/ Case10)) =>
        /\ txn.din = 0 /\ txn.dout = 0
        /\ (fsm_state = MSC_ST_ERROR /\ err_flag = 0) =>
              IF Case8 THEN chep[EP_IN].tx = USB_EP_STALL
                       ELSE chep[EP_OUT].rx = USB_EP_STALL
  /\ (CswOut /\ (Case8 \/ Case10)) =>
        /\ txn.stall = {IF Case8 THEN "IN" ELSE "OUT"}
        /\ txn.cleared = txn.stall
        /\ in_pkt.csw.status = 2

Case2 == Hn /\ Di
Case3 == Hn /\ Do

\* C11: when the host declares no data stage and the command wants one
\* (cases 2 and 3) no data packet is queued or received, no endpoint is
\* stalled, and the CSW reports status 0 and residue 0.
C11_HnStatusPassed ==
  /\ (txn.phase = "open" /\ (Case2 \/ Case3)) =>
        /\ ~DataOut
        /\ txn.din = 0 /\ txn.dout = 0
        /\ txn.stall = {}
  /\ (CswOut /\ (Case2 \/ Case3)) =>
        /\ in_pkt.csw.status = 0
        /\ in_pkt.csw.residue = 0

(* ---------------------------------------------------------------------- *)
(* C12                                                                    *)
(* ---------------------------------------------------------------------- *)
\* C12: for a command with a data stage sent with a declared length of 0
\* the device queues no data packet: the first packet on bulk IN is the
\* CSW, 13 bytes long, with the signature, the tag of the CBW and a status
\* different from 0.
C12_HnFirstPacketIsFailedCsw ==
  (txn.phase = "open" /\ Hn /\ (Di \/ Do)) =>
     /\ ~DataOut /\ txn.din = 0
     /\ CswOut =>
           /\ in_pkt.len = CswLen
           /\ in_pkt.csw.signature = CSW_SIGNATURE
           /\ in_pkt.csw.tag = txn.tag
           /\ in_pkt.csw.status # 0

\* the CSW of a READ CAPACITY sent without data stage
C12_Witness ==
  /\ CswOut /\ Hn /\ Di /\ cbw.op = SCSI_CMD10_READ_CAPACITY /\ txn.valid
  /\ txn.nsent = 0 /\ in_pkt.csw.status # 0

(* ---------------------------------------------------------------------- *)
(* C13                                                                    *)
(* ---------------------------------------------------------------------- *)
\* C13: the device never sends more data than the host declared, and the
\* residue of every CSW with status 0 or 1 is the declared length minus the
\* number of data bytes transferred in the data stage (sent by the device
\* or by the host), within 0..declared length, whatever the lengths of the
\* data-out packets.
C13_ResidueIsUntransferred ==
  /\ txn.phase = "open" => ~ULt(txn.dtl, txn.din)
  /\ (CswOut /\ in_pkt.csw.status \in {0, 1}) =>
        /\ in_pkt.csw.residue = txn.dtl - (txn.din + host.sent)
        /\ in_pkt.csw.residue >= 0
        /\ ~ULt(txn.dtl, in_pkt.csw.residue)

(* ---------------------------------------------------------------------- *)
(* C14                                                                    *)
(* ---------------------------------------------------------------------- *)
\* effect of a CLEAR_FEATURE(ENDPOINT_HALT) on the direction whose status
\* is st before and st2 after the request
C14_Released(st2) ==
  /\ fsm_state' = fsm_state
  /\ IF fsm_state \in {MSC_ST_ERROR, MSC_ST_CSW}
     THEN err_flag' = 1 /\ st2 = USB_EP_NAK
     ELSE err_flag' = err_flag /\ st2 = USB_EP_NAK

C15_GetMaxLunOneByte ==
  host.ctrl = "status_out" =>
    /\ host.got.len = 1
    /\ host.got.b0 = scsi_lun_count - 1

\* the n-th command has delivered its whole response and its CSW, with
\* status passed, is on its way
Returned(n) ==
  /\ CswOut
  /\ in_pkt.csw.tag = n
  /\ in_pkt.csw.status = 0
  /\ resp # << >>
  /\ txn.din = Len(resp)

\* the sense triple in the response of REQUEST SENSE
RespSense == [key |-> resp[3], asc |-> resp[13], ascq |-> resp[14]]

\* C16: a CDB whose opcode is not implemented gets a CSW with status 1; the
\* next REQUEST SENSE returns key 5, asc 0x20, ascq 0, and a second REQUEST
\* SENSE returns an all-zero sense.
C16_UnimplementedOpcode ==
  LET ops == host.ops
      n   == Len(ops)
  IN /\ (n >= 1 /\ ops[n] \in UnimplOps /\ CswOut /\ in_pkt.csw.tag = n)
          => in_pkt.csw.status = 1
     /\ (n >= 2 /\ ops[n - 1] \in UnimplOps
               /\ ops[n] = SCSI_CMD6_REQUEST_SENSE /\ Returned(n))
          => RespSense = [key |-> 5, asc |-> 32, ascq |-> 0]
     /\ (n >= 3 /\ ops[n - 2] \in UnimplOps
               /\ ops[n - 1] = SCSI_CMD6_REQUEST_SENSE
               /\ ops[n] = SCSI_CMD6_REQUEST_SENSE /\ Returned(n))
          => RespSense = SenseInit

\* C17: the sense triple changes only when a failing command sets it or
\* when a REQUEST SENSE that completes with status passed returns it to
\* all zero.
C17_SenseSticky ==
  [][ request_sense' # request_sense =>
        \/ /\ request_sense' # SenseInit
           /\ txn'.phase = "open" /\ txn'.res < 0
        \/ /\ request_sense' = SenseInit
           /\ txn'.phase = "open" /\ txn'.res = 1
           /\ cbw'.op = SCSI_CMD6_REQUEST_SENSE
           /\ csw'.status = 0 ]_vars

\* the command block dispatched for the open transaction is still in cbw
Dispatched == txn.phase = "open" /\ txn.valid /\ cbw.tag = txn.tag

\* sense NOT READY / MEDIUM NOT PRESENT
SenseNoMedium == [key |-> 2, asc |-> 58, ascq |-> 0]

\* C18: while the medium is absent, READ(10), WRITE(10), READ CAPACITY, READ
\* FORMAT CAPACITIES and MODE SENSE fail with the sense NOT READY / MEDIUM
\* NOT PRESENT without a call of the read or write hook, and TEST UNIT READY
\* fails with the same sense.
C18_MediumAbsent ==
  scsi_lun.state = 0 =>
    /\ \A i \in DOMAIN hook : hook[i].op \notin {"rd", "wr"}
    /\ (Dispatched /\ cbw.op \in {SCSI_CMD10_READ, SCSI_CMD10_WRITE,
                                  SCSI_CMD10_READ_CAPACITY,
                                  SCSI_CMD10_READ_FORMAT_CAPACITIES,
                                  SCSI_CMD6_MODE_SENSE,
                                  SCSI_CMD6_TEST_READY})
          => (txn.res < 0 /\ request_sense = SenseNoMedium)

\* the part of C18 about TEST UNIT READY alone
C18_TestReadyAbsent ==
  (scsi_lun.state = 0 /\ Dispatched /\ cbw.op = SCSI_CMD6_TEST_READY)
    => (txn.res = -3 /\ request_sense = SenseNoMedium)

\* the four bytes of x in network byte order
BigEndian32(x) ==
  << (x \div 16777216) % 256, (x \div 65536) % 256, (x \div 256) % 256, x % 256 >>

\* C20: the response of READ CAPACITY(10) is 8 bytes: the address of the
\* last block, capacity - 1, then the block length 512, both big endian.
C20_ReadCapacity ==
  [][ ( /\ cbw.op = SCSI_CMD10_READ_CAPACITY
        /\ resp' # resp /\ resp' # << >>
        /\ scsi_lun.capacity > 0 )
      => resp' = BigEndian32(scsi_lun.capacity - 1) \o BigEndian32(512) ]_vars

\* C19: after a completed WRITE(10, lba, N), READ(10, lba, N) returns the
\* blocks just written: the k-th block read is the k-th block written.
C19_ReadBackWritten ==
  (lun_io.op \in {"read", "idle"} /\ lun_io.k >= 1)
    => lun_io.last = BlockData(lun_io.pat, lun_io.k - 1, lun_io.n)

\* C21: after mem_write(0, 0, 0, 0) the 4096 bytes of the flash at
\* cache_addr are the cache as it was when the write was issued, and
\* mem_read(0, cache_addr, 4096, out) returns them.
C21_WriteBack ==
  LET d == mem_write_cache(Dev)
  IN /\ mem_read_buf(d, nodes.cache_addr) = nodes.cache_buffer
     /\ d.nodes = nodes

C21_Witness ==
  /\ lun_io.op = "mem_write"
  /\ nodes.cache_buffer[1] = 1 /\ nodes.cache_buffer[2] = 0
  /\ mem_read_buf(Dev, nodes.cache_addr) = nodes.cache_buffer

\* cache_addr of an invalid cache: 0xFFFFFFFF
CacheInvalid == -1

\* C22: cache_addr is 0xFFFFFFFF or aligned on 4 KiB, and a valid cache
\* holds the content of its sector of the flash, but for the blocks changed
\* and not yet written back.
C22_CacheCoherent ==
  /\ nodes.cache_addr = CacheInvalid \/ nodes.cache_addr % 4096 = 0
  /\ nodes.cache_addr # CacheInvalid =>
       \A i \in (1..SectorBlocks) \ lun_io.dirty :
          nodes.cache_buffer[i]
            = flash_read(flash, nodes.cache_addr + 512 * (i - 1))

\* the alignment part of C22
C22_CacheAligned == nodes.cache_addr % 4096 = 0

\* C23: the address register changes only at a bus reset, which clears it,
\* or at the transmit-complete event of the status stage of SET_ADDRESS,
\* which loads the address of that request; an address whose status stage
\* has not completed is never loaded.
C23_AddressStaged ==
  [][daddr' # daddr =>
       \/ daddr' = 0 /\ state' = USB_ST_DEFAULT
       \/ host.ctrl = "status_addr" /\ daddr' = dev_addr]_vars

\* a bus reset between the SETUP packet and its status stage: the address
\* of the request is not loaded by what follows
C23_ResetCancels ==
  [][state = USB_ST_DEFAULT => daddr' = 0]_vars

C24_PendingAddress ==
  /\ rst_flag = 2 /\ state = USB_ST_DEFAULT /\ daddr = 0
  /\ dev_addr = HostAddress

\* C25: a control request the device does not support leaves STATTX of
\* endpoint 0 at STALL from the end of the SETUP handler until the host has
\* sent its IN token: the host gets a STALL handshake, never a data packet
\* nor a zero-length status packet.
C25_UnsupportedStalls ==
  host.req \in CtrlUnsupported =>
    /\ host.ctrl = "answer" => chep[0].tx = USB_EP_STALL
    /\ host.ctrl # "done"

\* the host has got the STALL handshake for a GET_DESCRIPTOR of a string
\* outside the table
C25_Witness ==
  /\ host.ctrl = "stalled"
  /\ host.req = Req(128, 6, 768 + 3, 1033, 255)

\* the u32 that holds a count below 2^32 (4294967 s 296 ms)
FitsU32(n) == n.s < 4294967 \/ (n.s = 4294967 /\ n.ms < 296)
FromCount(n) == Add32(Mul32(U32(n.s), 1000), U32(n.ms))

\* an int result that is the count n
EqCount(res, n) == res >= 0 /\ Count(res) = n

\* a time structure f ms ahead of the clock
FutureOffsets == {1, 999, 1000, 2500}
TvAhead(c, f) ==
  [sec |-> Add32(c.time_s, U32((c.time_ms + f) \div 1000)),
   ms |-> (c.time_ms + f) % 1000]

\* a run of ticks is a loop of handler calls: a run of no tick changes
\* nothing, and a run of k + 1 ticks is one call followed by a run of k
LoopTicks == 1000
SysTickRunIsLoop ==
  /\ SysTickRun(Clock, 0) = Clock
  /\ \A k \in 0..LoopTicks :
       SysTickRun(SysTick_Handler(Clock), k) = SysTickRun(Clock, k + 1)

TimeNowCounts ==
  /\ FitsU32(tm_obs.n)
  /\ time_now(Clock).res = FromCount(tm_obs.n)
  /\ time_now(Clock).tv = [sec |-> U32(tm_obs.n.s), ms |-> tm_obs.n.ms]

TimeDiffFuture ==
  \A f \in FutureOffsets : time_diff_ms(Clock, TvAhead(Clock, f)) = 0 - f

\* C26: after N calls of the tick handler time_now() returns N and fills
\* (N div 1000, N mod 1000); N calls after a reference was taken
\* time_since(ref) and time_diff_ms(&tv) return N; time_diff_ms returns -f
\* for a reference f ms ahead.
C26_TimeCounts ==
  /\ TimeNowCounts
  /\ tm_obs.taken =>
       /\ EqCount(time_since(Clock, tm_obs.ref), tm_obs.since)
       /\ EqCount(time_diff_ms(Clock, tm_obs.tv), tm_obs.since)
  /\ TimeDiffFuture

\* the same for the references less than 2^31 ms old (2147483 s 648 ms)
C26_Below31 ==
  /\ TimeNowCounts
  /\ tm_obs.taken /\ (tm_obs.since.s < 2147483
                      \/ (tm_obs.since.s = 2147483 /\ tm_obs.since.ms < 648)) =>
       /\ EqCount(time_since(Clock, tm_obs.ref), tm_obs.since)
       /\ EqCount(time_diff_ms(Clock, tm_obs.tv), tm_obs.since)
  /\ TimeDiffFuture

\* C27: the copy of (time_s, time_ms) a caller of time_now(&tv) or of
\* time_diff_ms() ends up with is a pair the two counters held together at
\* one instant of the call.
C27_ConsistentPair ==
  tm_rd.pc = 9 => [sec |-> tm_rd.now_s, ms |-> tm_rd.now_ms] \in tm_rd.held

\* the same for time_diff_ms alone
C27_DiffConsistent ==
  tm_rd.pc = 9 /\ tm_rd.fn = "time_diff_ms" =>
    [sec |-> tm_rd.now_s, ms |-> tm_rd.now_ms] \in tm_rd.held

\* time_diff_ms has taken its second copy
C27_DiffRetried ==
  tm_rd.pc = 9 /\ tm_rd.fn = "time_diff_ms" /\ Cardinality(tm_rd.held) = 4

EchoOffset == hton3(Field24(echo_io.offset))
EchoLength == hton3(Field24(echo_io.length))

\* C28: a READ BUFFER or WRITE BUFFER in echo mode with offset + length >
\* 1024 is rejected by its first call with ILLEGAL REQUEST / INVALID FIELD
\* IN CDB and copies nothing; no call of the command reads or writes a byte
\* outside scsi_echo[0..1023].
C28_EchoBounds ==
  echo_io.op # 0 =>
    /\ EchoOffset + EchoLength > EchoSize =>
         /\ echo_io.res = -3 /\ echo_io.calls = 1
         /\ request_sense = [key |-> 5, asc |-> 36, ascq |-> 0]
         /\ echo_io.hi = 0
    /\ echo_io.hi <= EchoSize

\* the same for WRITE BUFFER alone
C28_EchoWriteBounds ==
  echo_io.op = SCSI_CMD10_WRITE_BUFFER =>
    /\ EchoOffset + EchoLength > EchoSize =>
         /\ echo_io.res = -3 /\ echo_io.calls = 1
         /\ request_sense = [key |-> 5, asc |-> 36, ascq |-> 0]
         /\ echo_io.hi = 0
    /\ echo_io.hi <= EchoSize

\* a WRITE BUFFER of 1024 bytes is complete
C28_WriteDone ==
  /\ echo_io.op = SCSI_CMD10_WRITE_BUFFER /\ echo_io.res = 0
  /\ echo_io.lo = 0 /\ echo_io.hi = EchoSize

\* C30: once a call of the SCSI handler has returned a negative code, at the
\* first dispatch of the CBW or at a later one in DATA_IN or DATA_OUT, the
\* FSM is not left in a data state, and the CSW of the transaction has the
\* status 1.
C30_HandlerError ==
  txn.phase = "open" /\ txn.err # 0 =>
    /\ fsm_state \notin {MSC_ST_DATA_IN, MSC_ST_DATA_OUT}
    /\ CswOut => in_pkt.csw.status = 1

\* the same for the first dispatch of a CBW alone
C30_FirstDispatch ==
  txn.phase = "open" /\ txn.err # 0 /\ txn.res < 0 =>
    /\ fsm_state \notin {MSC_ST_DATA_IN, MSC_ST_DATA_OUT}
    /\ CswOut => in_pkt.csw.status = 1
    /\ txn.dtl # 0 =>
         /\ (IF txn.dirin THEN "IN" ELSE "OUT") \in txn.stall
         /\ csw.residue = txn.dtl

\* a handler error in the middle of a data-in stage ends with a CSW of
\* status 0
C30_DataInPassed ==
  /\ CswOut /\ txn.err # 0 /\ txn.res = 2 /\ in_pkt.csw.status = 0

\* a handler error in the middle of a data-out stage leaves the FSM in
\* DATA_OUT with the OUT endpoint not VALID
C30_DataOutStuck ==
  /\ txn.phase = "open" /\ txn.err # 0 /\ txn.res = 3
  /\ fsm_state = MSC_ST_DATA_OUT /\ rx_flag = 0
  /\ chep[EP_OUT].rx # USB_EP_VALID

\* the transaction is over: the CSW has been read by the host and the FSM
\* waits for the next CBW
TxnClosed ==
  /\ txn.phase = "closed"
  /\ fsm_state = MSC_ST_CBW
  /\ chep[EP_OUT].rx = USB_EP_VALID

\* C29: with a main loop that keeps running and a host that follows the
\* protocol, every accepted CBW is eventually followed by the transmission
\* of its CSW, the FSM back in state CBW and the OUT endpoint VALID.
C29_TransactionEnds == (txn.phase = "open" /\ txn.valid) ~> TxnClosed

\* the same while the hooks of the LUN are the default ones
C29_DefaultHooksEnd ==
  (txn.phase = "open" /\ txn.valid) ~> (TxnClosed \/ lun_hooks # DefaultHooks)

(* ---------------------------------------------------------------------- *)
(* C31                                                                    *)
(* ---------------------------------------------------------------------- *)
\* a step of the main loop; every other step of Next runs in USB_Handler
Foreground == Periodic \/ MediumInserted

\* C31: rx_flag, tx_flag and err_flag are written by the interrupt only,
\* rst_flag by the foreground only; the FSM state, the CBW and CSW records,
\* data_len, data_offset, the SCSI iteration counter, the staged byte count
\* and the sense record change in the foreground only.
C31_SingleWriter ==
  [][/\ Foreground => UNCHANGED << rx_flag, tx_flag, err_flag >>
     /\ ~Foreground =>
          UNCHANGED << rst_flag, fsm_state, cbw, csw, data_len, data_offset,
                       scsi_ctx, scsi_len, request_sense >>]_vars

\* the part of the state that no step of the interrupt changes
C31_ForegroundOnly ==
  [][~Foreground => UNCHANGED << fsm_state, csw, data_len >>]_vars

\* the interrupt stores the packet received in state CBW into the CBW record
C31_IsrWritesCbw ==
  [][~Foreground => UNCHANGED cbw]_vars

\* the foreground clears the flag the interrupt has set
C31_ForegroundClears ==
  [][Foreground => rx_flag' = rx_flag]_vars

(* ---------------------------------------------------------------------- *)
(* C32                                                                    *)
(* ---------------------------------------------------------------------- *)
\* the step calls the SCSI dispatcher
Dispatch == txn'.calls # txn.calls /\ txn'.calls > 0

\* C32: the dispatcher is called by the main loop only; a further call for
\* the same CBW is made only once the whole IN segment has left (last
\* packet transmitted and seen, nothing queued on bulk IN) or the whole OUT
\* segment is received and seen (bulk OUT no longer VALID).
C32_Serialised ==
  [][Dispatch =>
       /\ Foreground
       /\ txn'.calls > 1 =>
            /\ fsm_state \in {MSC_ST_DATA_IN, MSC_ST_DATA_OUT}
            /\ fsm_state = MSC_ST_DATA_IN =>
                 /\ tx_flag = 1 /\ data_offset = data_len
                 /\ chep[EP_IN].tx # USB_EP_VALID /\ in_pkt = NoPkt
            /\ fsm_state = MSC_ST_DATA_OUT =>
                 /\ rx_flag = 1 /\ ~ULt(data_offset, data_len)
                 /\ chep[EP_OUT].rx # USB_EP_VALID]_vars

\* the third call for a WRITE(10) of two blocks has been made, after the
\* 1024 bytes of its two segments
C32_Witness ==
  /\ txn.phase = "open" /\ txn.calls = 3 /\ txn.res = 3
  /\ txn.dout = 1024 /\ fsm_state = MSC_ST_CSW

(* ---------------------------------------------------------------------- *)
(* C33: the endpoint updates of the main loop against the USB interrupt   *)
(* ---------------------------------------------------------------------- *)

\* usb_ep_set_state and usb_send read CHEPxR, compute the toggle bits from
\* the value read and write them back; nothing masks USB_Handler between the
\* read and the write. The endpoint directions whose status d2 changes
RegChanges(d1, d2) ==
  {c \in (0..2) \X {0, 1} :
     IF c[2] = 1 THEN d1.chep[c[1]].tx # d2.chep[c[1]].tx
                 ELSE d1.chep[c[1]].rx # d2.chep[c[1]].rx}

\* fsm_csw up to the register read of its endpoint update (usb_send on bulk
\* IN, or usb_ep_set_state on bulk OUT, the last statement of the handler):
\* the memory is written, the register write is still to come. Every other
\* call of usb_periodic runs as one step
PeriodicRead ==
  /\ ~fg_rmw.pend
  /\ \E d \in {_periodic([Dev EXCEPT !.hook = << >>])} :
     \E ch \in {RegChanges(Dev, d)} :
       LET dd == [d EXCEPT !.txn.path =
                    IF d.txn.phase = "open" THEN @ \cup {d.fsm_state} ELSE @]
       IN IF fsm_state = MSC_ST_CSW /\ rst_flag = 0 /\ Cardinality(ch) = 1
          THEN \E c \in ch :
                 LET prev == IF c[2] = 1 THEN chep[c[1]].tx
                             ELSE chep[c[1]].rx
                     new  == IF c[2] = 1 THEN d.chep[c[1]].tx
                             ELSE d.chep[c[1]].rx
                 IN Commit([dd EXCEPT !.chep = chep,
                                      !.fg_rmw = [pend |-> TRUE, ep |-> c[1],
                                                  dir |-> c[2],
                                                  w |-> Xor2(prev, new),
                                                  want |-> new]])
          ELSE Commit(dd)
  /\ UNCHANGED host

\* the register write of the update begun by PeriodicRead
PeriodicWrite ==
  /\ fg_rmw.pend
  /\ Commit(IF fg_rmw.dir = 1
            THEN [Dev EXCEPT !.chep[fg_rmw.ep].tx = HwToggle(@, fg_rmw.w),
                             !.fg_rmw = NoRmw]
            ELSE [Dev EXCEPT !.chep[fg_rmw.ep].rx = HwToggle(@, fg_rmw.w),
                             !.fg_rmw = NoRmw])
  /\ UNCHANGED host

\* main.c runs the medium detection between two calls of usb_periodic
MediumInsertedLoop == ~fg_rmw.pend /\ MediumInserted

NextRace ==
  \/ PeriodicRead
  \/ PeriodicWrite
  \/ MediumInsertedLoop
  \/ Attach
  \/ SetAddress
  \/ SetConfiguration
  \/ Ep0StatusIn
  \/ ClearAnyIn
  \/ ClearAnyOut
  \/ HostSendFirstCbw
  \/ HostSendData
  \/ HostIn

SpecRace == Init /\ [][NextRace]_vars

\* the status of the endpoint direction the pending update addresses
RmwStatus == IF fg_rmw.dir = 1 THEN chep[fg_rmw.ep].tx ELSE chep[fg_rmw.ep].rx

\* C33: the register write of a foreground endpoint update leaves the
\* endpoint in the status the foreground requested, or in the status the
\* interrupt gave it in between, whatever ran between the read and the write
C33_AtomicUpdate ==
  [][(fg_rmw.pend /\ ~fg_rmw'.pend) =>
       LET after == IF fg_rmw.dir = 1 THEN chep'[fg_rmw.ep].tx
                    ELSE chep'[fg_rmw.ep].rx
       IN after \in {fg_rmw.want, RmwStatus}]_vars

\* C33: with a command block awaited and no flag raised, the bulk OUT
\* endpoint is not NAK once the main loop has finished its update
C33_OutValidInCbw ==
  (/\ Configured /\ ~fg_rmw.pend /\ fsm_state = MSC_ST_CBW
   /\ rx_flag = 0 /\ rst_flag = 0 /\ err_flag = 0)
  => chep[EP_OUT].rx # USB_EP_NAK

(* ---------------------------------------------------------------------- *)
(* C34: the copies of the OUT-packet handler stay inside their objects    *)
(* ---------------------------------------------------------------------- *)

\* lengths of the OUT packets of a data-out stage: empty, not a multiple
\* of 4, full
StageLens == {0, 62, MaxPacket}

\* the host sends a packet of any of these lengths while data is awaited
HostSendStage ==
  /\ Configured /\ host.busy /\ ~host.dirin /\ host.sent < host.dtl
  /\ chep[EP_OUT].rx = USB_EP_VALID
  /\ \E n \in StageLens :
       /\ n <= host.dtl - host.sent
       /\ Commit(ep_rx(Dev, EP_OUT, OutData(n)))
       /\ host' = [host EXCEPT !.sent = @ + n]

NextStage ==
  \/ Periodic
  \/ MediumInserted
  \/ Attach
  \/ SetAddress
  \/ SetConfiguration
  \/ Ep0StatusIn
  \/ ClearHaltIn
  \/ ClearHaltOut
  \/ HostSendCbw
  \/ HostSendStage
  \/ HostIn

SpecStage == Init /\ [][NextStage]_vars

\* C34: at most 512 bytes are staged, and every copy of usb_ep_rx lies
\* inside scsi_data (512 bytes) or inside the CBW record (32 bytes)
C34_CopyInBounds ==
  /\ scsi_len <= ScsiBufSize
  /\ rx_copy.buf = "data" => rx_copy.lo <= rx_copy.hi /\ rx_copy.hi <= ScsiBufSize
  /\ rx_copy.buf = "cbw" => rx_copy.hi <= SizeofCbw

\* a packet whose length is not a multiple of 4 has been copied up to the
\* last byte of the staging buffer, and a 64-byte packet over the CBW record
C34_WitnessStaging ==
  /\ rx_copy.buf = "data" /\ rx_copy.hi = ScsiBufSize
  /\ rx_copy.hi - rx_copy.lo = MaxPacket /\ data_offset % 4 # 0

C34_WitnessCbw ==
  /\ rx_copy.buf = "cbw" /\ rx_copy.hi = SizeofCbw /\ txn.rxlen = MaxPacket

(* ---------------------------------------------------------------------- *)
(* C35: the hook calls of a WRITE(10)                                     *)
(* ---------------------------------------------------------------------- *)

\* the commands of SpecWr: first block and number of blocks
WrLbas == {0, 7, 9, 32767}
WrCounts == 0..3
\* SpecWr runs at most MaxWrCmd commands
MaxWrCmd == 2

\* a WRITE(10) is received: its CDB stays in the CBW record for the whole
\* transaction, the iteration counter is 0 (scsi_complete)
WrCommand ==
  /\ lun_io.op \in {"idle", "wrdone"} /\ lun_io.cnt < MaxWrCmd
  /\ \E a \in WrLbas, c \in WrCounts :
       Commit([Dev EXCEPT
                 !.cbw = CdbOf(SCSI_CMD10_WRITE, [lba |-> a, n |-> c]),
                 !.lun_io = [lun_io EXCEPT
                               !.op = "wrcall", !.lba = a, !.n = c,
                               !.pat = "count", !.k = 0, !.last = 0,
                               !.cnt = @ + 1, !.log = << >>,
                               !.rets = << >>, !.f0 = flash,
                               !.polls = 0, !.fail = FALSE]])
  /\ UNCHANGED host

\* one call of scsi_command with that CDB, the hooks it calls included;
\* scsi_complete() when the result ends the transaction
WrCall ==
  /\ lun_io.op = "wrcall"
  /\ \E r \in {scsi_command(Dev)} :
       LET data == BlockData(lun_io.pat, scsi_ctx - 1, lun_io.n)
           d1   == [RunHooks(r.d, r.d.hook, data) EXCEPT
                      !.lun_io.log = @ \o r.d.hook,
                      !.lun_io.rets = Append(@, r.res)]
       IN Commit(IF r.res = 3 THEN d1
                 ELSE scsi_complete([d1 EXCEPT !.lun_io.op = "wrdone"]))
  /\ UNCHANGED host

NextWr ==
  \/ MediumInserted
  \/ WrCommand
  \/ WrCall

SpecWr == Init /\ [][NextWr]_vars

\* the hook calls of a whole WRITE(10) of n blocks at lba, in order
WrExpected(lba, n) ==
  << [op |-> "wr_preload", addr |-> lba * 512] >>
  \o [k \in 1..n |-> [op |-> "wr", addr |-> (lba + k - 1) * 512]]
  \o << [op |-> "wr_complete", addr |-> 0] >>

\* C35: after c calls of the dispatcher for a WRITE(10) of n blocks the
\* hooks called are write_preload(lba*512), then write((lba+k-1)*512) for
\* k = 1..c-1 in order, then write_complete() once the n-th block is
\* written; the calls return 3 while blocks remain and the last returns 0.
\* On a write-protected LUN no hook is called, the call returns -3 and the
\* sense is DATA PROTECT / WRITE PROTECTED
C35_WriteHooks ==
  [][lun_io'.rets # lun_io.rets /\ lun_io'.rets # << >> =>
       LET c == Len(lun_io'.rets)
           n == lun_io.n
       IN IF scsi_lun.writable = 0
          THEN /\ lun_io'.log = << >> /\ lun_io'.rets = << -3 >>
               /\ lun_io'.op = "wrdone" /\ flash' = flash /\ nodes' = nodes
               /\ request_sense'.key = 7 /\ request_sense'.asc = 39
          ELSE /\ c <= n + 1
               /\ lun_io'.op = "wrdone" <=> c = n + 1
               /\ \A i \in 1..c : lun_io'.rets[i] = IF i <= n THEN 3 ELSE 0
               /\ lun_io'.log = SubSeq(WrExpected(lun_io.lba, n), 1,
                                       IF c = n + 1 THEN n + 2 ELSE c)]_vars

\* a WRITE(10) of 3 blocks at block 7 has run to its end
C35_Witness ==
  /\ lun_io.op = "wrdone" /\ lun_io.n = 3 /\ lun_io.lba = 7
  /\ scsi_lun.writable = 1 /\ Len(lun_io.log) = 5 /\ scsi_ctx = 0
  /\ lun_io.cnt = 2

\* a WRITE(10) has been refused on a write-protected LUN
C35_WitnessProtected ==
  /\ lun_io.op = "wrdone" /\ scsi_lun.writable = 0 /\ lun_io.rets = << -3 >>

(* ---------------------------------------------------------------------- *)
(* C36: the iterations of a READ(10)                                      *)
(* ---------------------------------------------------------------------- *)

\* the commands of SpecRd: first block and transfer_length
RdLbas == {0, 7, 9}
RdCounts == 0..3
\* SpecRd runs at most MaxRdCmd commands
MaxRdCmd == 2

\* a READ(10) is received; the iteration counter is 0 (scsi_complete)
RdCommand ==
  /\ lun_io.op \in {"idle", "rddone"} /\ lun_io.cnt < MaxRdCmd
  /\ \E a \in RdLbas, c \in RdCounts :
       Commit([Dev EXCEPT
                 !.cbw = CdbOf(SCSI_CMD10_READ, [lba |-> a, n |-> c]),
                 !.lun_io = [lun_io EXCEPT
                               !.op = "rdcall", !.lba = a, !.n = c,
                               !.k = 0, !.last = 0, !.cnt = @ + 1,
                               !.log = << >>, !.rets = << >>]])
  /\ UNCHANGED host

\* one call of scsi_command with that CDB, the read hook included; the
\* transport calls again while the result is 2 and then scsi_complete()
RdCall ==
  /\ lun_io.op = "rdcall"
  /\ \E r \in {scsi_command(Dev)} :
       LET v  == IF r.d.hook = << >> THEN 0
                 ELSE default_lun_rd(r.d, r.d.hook[1].addr)
           d1 == [r.d EXCEPT !.lun_io.k = @ + Len(r.d.hook),
                             !.lun_io.last = v,
                             !.lun_io.log = @ \o r.d.hook,
                             !.lun_io.rets = Append(@, r.res)]
       IN Commit(IF r.res = 2 THEN d1
                 ELSE scsi_complete([d1 EXCEPT !.lun_io.op = "rddone"]))
  /\ UNCHANGED host

NextRd ==
  \/ MediumInserted
  \/ RdCommand
  \/ RdCall

SpecRd == Init /\ [][NextRd]_vars

\* the reads of a whole READ(10) of n blocks at lba, in order
RdExpected(lba, n) == [i \in 1..n |-> [op |-> "rd", addr |-> (lba + i - 1) * 512]]

\* C36: a finished READ(10) with transfer_length n has made exactly n
\* iterations, the i-th reading 512 bytes at (lba + i) * 512, the first
\* n - 1 returning 2 and the last 1, and the iteration counter is 0 again
C36_ReadIterations ==
  lun_io.op = "rddone" =>
    /\ lun_io.log = RdExpected(lun_io.lba, lun_io.n)
    /\ lun_io.k = lun_io.n
    /\ \A i \in 1..Len(lun_io.rets) :
         lun_io.rets[i] = IF i < Len(lun_io.rets) THEN 2 ELSE 1
    /\ scsi_ctx = 0

\* C36 for n >= 1 only, and the counter after every transaction
C36_ReadIterationsPositive ==
  lun_io.op = "rddone" =>
    /\ lun_io.n >= 1 =>
         /\ lun_io.log = RdExpected(lun_io.lba, lun_io.n)
         /\ Len(lun_io.rets) = lun_io.n
         /\ \A i \in 1..lun_io.n : lun_io.rets[i] = IF i < lun_io.n THEN 2 ELSE 1
    /\ scsi_ctx = 0

\* a READ(10) with transfer_length 0 reads one block and reports data
C36_ZeroLengthReads ==
  (lun_io.op = "rddone" /\ lun_io.n = 0) =>
    /\ lun_io.log = << [op |-> "rd", addr |-> lun_io.lba * 512] >>
    /\ lun_io.rets = << 1 >> /\ scsi_len = 512

(* ---------------------------------------------------------------------- *)
(* C37: what a WRITE(10) leaves unchanged                                 *)
(* ---------------------------------------------------------------------- *)

\* the blocks of the flash that differ from what they held when the
\* command was received
WrChanged ==
  {b \in DOMAIN flash \cup DOMAIN lun_io.f0 :
     FlashAt(flash, b) # FlashAt(lun_io.f0, b)}

\* the WRITE(10) in progress has run to its end with success
WrCompleted ==
  /\ lun_io.op = "wrdone" /\ lun_io.rets # << >>
  /\ lun_io.rets[Len(lun_io.rets)] = 0

\* C37: a completed WRITE(10) of n blocks at lba has changed no block
\* outside lba .. lba + n - 1
C37_WriteFrame ==
  WrCompleted => WrChanged \subseteq lun_io.lba..(lun_io.lba + lun_io.n - 1)

\* C37 for the ranges that end inside the 16 MiB the three address bytes of
\* a flash command reach
C37_WriteFrameInside ==
  (WrCompleted /\ lun_io.lba + lun_io.n <= FlashBlocks)
  => WrChanged \subseteq lun_io.lba..(lun_io.lba + lun_io.n - 1)

\* a write across a sector boundary has changed blocks of both sectors and
\* nothing else, the cache having held another sector before
C37_CrossesSectors ==
  /\ WrCompleted /\ lun_io.lba = 7 /\ lun_io.n = 3 /\ lun_io.cnt = 2
  /\ WrChanged = {7, 8, 9} /\ FlashAt(lun_io.f0, 0) # Erased

(* ---------------------------------------------------------------------- *)
(* C38: the status-poll loops of the flash commands                       *)
(* ---------------------------------------------------------------------- *)

\* for (i = 0; i < 100000; i++): the bound of both poll loops
FlashPollMax == 100000

\* SpecChip lets the chip stay busy for at most MaxBusyPolls polls before
\* it answers
MaxBusyPolls == 2

\* what the status register shows to a poll loop: busy for `after` reads,
\* then busy cleared ("ready") or bit 5 set ("error"); or busy at every
\* read ("stuck")
ChipBehaviours ==
  [kind : {"ready", "error"}, after : 0..MaxBusyPolls]
  \cup {[kind |-> "stuck", after |-> 0]}

\* the poll loop of flash_erase and flash_write: the value of i when the
\* loop is left, and whether it was left on busy cleared
flash_poll(chip) ==
  [i  |-> IF chip.kind = "stuck" THEN FlashPollMax ELSE chip.after,
   ok |-> chip.kind = "ready"]

\* flash_erase on a chip that behaves as chip: the sector is erased when
\* the command succeeds; the function returns 0 in every case
flash_erase_chip(f, addr, chip) ==
  [res |-> 0, poll |-> flash_poll(chip),
   f |-> IF flash_poll(chip).ok THEN flash_erase(f, addr) ELSE f]

\* flash_write on a chip that behaves as chip: sixteen page programs, each
\* with its poll loop; the function returns 0 in every case
flash_write_chip(f, buffer, addr, chip) ==
  [res |-> 0, poll |-> flash_poll(chip),
   f |-> IF flash_poll(chip).ok THEN flash_write(f, buffer, addr) ELSE f]

\* mem_write(0, 0, 0, 0): the results of flash_erase and flash_write are
\* not read
mem_write_cache_chip(d, chip) ==
  LET e == flash_erase_chip(d.flash, d.nodes.cache_addr, chip)
      w == flash_write_chip(e.f, d.nodes.cache_buffer, d.nodes.cache_addr,
                            chip)
  IN [d EXCEPT !.flash = w.f,
               !.lun_io.dirty = {},
               !.lun_io.polls = IF e.poll.i > @ THEN e.poll.i ELSE @,
               !.lun_io.fail = @ \/ ~e.poll.ok \/ ~w.poll.ok]

\* default_lun_wr: return(0)
default_lun_wr_chip(d, addr, data, chip) ==
  LET d1 == IF PageOf(addr) # d.nodes.cache_addr
            THEN mem_read_cache(mem_write_cache_chip(d, chip), addr)
            ELSE d
  IN cache_copy(d1, addr, data)

\* default_lun_wr_complete: return(0)
default_lun_wr_complete_chip(d, chip) == mem_write_cache_chip(d, chip)

RECURSIVE RunHooksChip(_, _, _, _)
RunHooksChip(d, hooks, data, chip) ==
  IF hooks = << >> THEN d
  ELSE LET h  == Head(hooks)
           d1 == CASE h.op = "wr_preload"  -> default_lun_wr_preload(d, h.addr)
                   [] h.op = "wr"          ->
                        default_lun_wr_chip(d, h.addr, data, chip)
                   [] h.op = "wr_complete" ->
                        default_lun_wr_complete_chip(d, chip)
                   [] OTHER                -> d
       IN RunHooksChip(d1, Tail(hooks), data, chip)

\* one call of scsi_command for the WRITE(10) in progress, the flash chip
\* answering the commands of this call as chip
WrCallChip ==
  /\ lun_io.op = "wrcall"
  /\ \E r \in {scsi_command(Dev)}, chip \in ChipBehaviours :
       LET data == BlockData(lun_io.pat, scsi_ctx - 1, lun_io.n)
           d1   == [RunHooksChip(r.d, r.d.hook, data, chip) EXCEPT
                      !.lun_io.log = @ \o r.d.hook,
                      !.lun_io.rets = Append(@, r.res)]
       IN Commit(IF r.res = 3 THEN d1
                 ELSE scsi_complete([d1 EXCEPT !.lun_io.op = "wrdone"]))
  /\ UNCHANGED host

NextChip ==
  \/ MediumInserted
  \/ WrCommand
  \/ WrCallChip

SpecChip == Init /\ [][NextChip]_vars

\* C38: no poll loop makes more than its 100000 iterations, and a WRITE(10)
\* during which a poll loop ended on an error or with the chip still busy
\* does not end with success: its last dispatcher call returns a negative
\* result with sense MEDIUM ERROR / WRITE ERROR
C38_PollFailureReported ==
  /\ lun_io.polls <= FlashPollMax
  /\ (lun_io.op = "wrdone" /\ lun_io.fail) =>
       /\ lun_io.rets[Len(lun_io.rets)] < 0
       /\ request_sense.key = 3 /\ request_sense.asc = 12

\* C38, the loops alone: every poll loop ends within 100000 iterations
C38_PollsBounded == lun_io.polls <= FlashPollMax

\* the chip stayed busy for a whole poll loop and the WRITE(10) ended
\* with success
C38_BusyIgnored ==
  /\ lun_io.op = "wrdone" /\ lun_io.fail /\ lun_io.polls = FlashPollMax
  /\ lun_io.rets[Len(lun_io.rets)] = 0 /\ request_sense.key = 0

(* ---------------------------------------------------------------------- *)
(* C39: software updates of the endpoint status                           *)
(* ---------------------------------------------------------------------- *)

\* the step handles a SET_CONFIGURATION request
SetConfigurationStep ==
  /\ host.ctrl # "answer" /\ host'.ctrl = "answer"
  /\ host'.req = Req(0, 9, 1, 0, 0)

\* C39: SET_CONFIGURATION leaves bulk OUT in the status usb_ep_configure
\* asks for (VALID for a direction with an rx callback) and bulk IN in
\* NAK (a direction with a tx_complete callback), whatever status the
\* endpoints had before
C39_RequestedStatus ==
  [][SetConfigurationStep =>
       /\ chep'[EP_OUT].rx = USB_EP_VALID
       /\ chep'[EP_IN].tx = USB_EP_NAK]_vars

\* C39 for a configuration of endpoints that are disabled (after a reset)
C39_FirstConfiguration ==
  [][(/\ SetConfigurationStep
      /\ chep[EP_OUT].rx = USB_EP_DISABLED
      /\ chep[EP_IN].tx = USB_EP_DISABLED) =>
       /\ chep'[EP_OUT].rx = USB_EP_VALID
       /\ chep'[EP_IN].tx = USB_EP_NAK]_vars

\* C39 for usb_ep_set_state and usb_send: from every status of the two
\* directions, the addressed direction ends in the requested status and
\* the other direction keeps its status
C39_SetStateAndSend ==
  \A e \in 0..2, a \in 0..3, b \in 0..3 :
    LET d0 == [Dev EXCEPT !.chep[e] = [rx |-> a, tx |-> b], !.hw_in = FALSE]
    IN /\ \A st \in 0..3 :
            /\ usb_ep_set_state(d0, e, 0, st).chep[e] = [rx |-> st, tx |-> b]
            /\ usb_ep_set_state(d0, e, 1, st).chep[e] = [rx |-> a, tx |-> st]
       /\ usb_send(d0, e, NoPkt).chep[e] = [rx |-> a, tx |-> USB_EP_VALID]

\* the second SET_CONFIGURATION has disabled both bulk endpoints
C39_Reconfigured ==
  /\ host.req = Req(0, 9, 1, 0, 0) /\ host.ctrl = "answer"
  /\ chep[EP_OUT].rx = USB_EP_DISABLED /\ chep[EP_IN].tx = USB_EP_DISABLED
  /\ ep_defs[EP_OUT].rx

(* ---------------------------------------------------------------------- *)
(* C40: the indexes used on the endpoint-definition table                 *)
(* ---------------------------------------------------------------------- *)

\* the wIndex values of the CLEAR_FEATURE(ENDPOINT_HALT) requests of
\* SpecTable: endpoints 0, 1, 2 and 8, with and without the direction bit
ClearIndexes == {0, 1, 2, 8, 128, 129, 130, 136}

\* what the words before the table can hold as a release pointer, and what
\* a call through such a pointer can return
StrayDefs == [release : BOOLEAN, res : 0..2]

\* the host sends CLEAR_FEATURE(ENDPOINT_HALT) for any of these endpoints
HostClearHalt ==
  /\ host.enum # "off" /\ host.ctrl # "answer"
  /\ rst_flag = 0
  /\ chep[0].rx = USB_EP_VALID
  /\ \E i \in ClearIndexes, s \in StrayDefs :
       /\ \E d \in {ep0_rx_setup([Dev EXCEPT !.stray = s],
                                 Req(2, 1, 0, i, 0))} : Commit(d)
       /\ host' = [host EXCEPT !.ctrl = "answer", !.req = Req(2, 1, 0, i, 0),
                               !.got = [len |-> 0, b0 |-> 0]]

\* the host sends SET_CONFIGURATION(1), which configures endpoints 1 and 2
HostSetConfiguration ==
  /\ host.enum # "off" /\ host.ctrl # "answer"
  /\ rst_flag = 0
  /\ chep[0].rx = USB_EP_VALID
  /\ \E d \in {ep0_rx_setup(Dev, Req(0, 9, 1, 0, 0))} : Commit(d)
  /\ host' = [host EXCEPT !.ctrl = "answer", !.req = Req(0, 9, 1, 0, 0),
                          !.got = [len |-> 0, b0 |-> 0]]

NextTable ==
  \/ Periodic
  \/ BusReset
  \/ HostSetConfiguration
  \/ HostCtrlIn
  \/ HostClearHalt

SpecTable == Init /\ [][NextTable]_vars

\* C40: no handler indexes ep_defs outside its USB_EP_COUNT entries
C40_TableInBounds == ~ep_oob

\* C40 for the requests that name an endpoint other than 0
C40_TableInBoundsNonZero ==
  [][(host'.req.wIndex % 128 # 0 \/ host'.req.bRequest # 1) =>
       ep_oob' = ep_oob]_vars

\* CLEAR_FEATURE(ENDPOINT_HALT) for wIndex 0 has been answered
C40_ClearedEndpoint0 ==
  /\ host.req = Req(2, 1, 0, 0, 0) /\ host.ctrl = "done" /\ ep_oob

====
